---- MODULE Spec2Model ----
(***************************************************************************)
(* ASRE rating engine (src/unnamed/part_003, component ASREDemo), its      *)
(* market service (src/unnamed/part_000) and its server                    *)
(* (src/backend/server.js, src/unnamed/part_002).                          *)
(*                                                                         *)
(* JavaScript numbers are modelled as exact rationals <<n, d>> in lowest   *)
(* terms with d > 0.  JavaScript null / undefined is the pair <<0, 0>>.    *)
(* Math.sqrt is exact on squares of rationals and otherwise truncated to   *)
(* three decimals.                                                         *)
(***************************************************************************)
EXTENDS Integers, Sequences, FiniteSets, Bags, TLC

\* the rating page (part_003): the response, the rating shown, the call under check
VARIABLES data, result, error, input, ret

\* the market service (part_000): its fields, Date.now(), its calls in flight
\* and what its callers have observed
VARIABLES service, clock, calls, trace

vars == <<data, result, error, input, ret, service, clock, calls, trace>>

page == <<data, result, error, input, ret>>

backend == <<service, clock, calls, trace>>

-----------------------------------------------------------------------------
(* MarketService: construction *)

\* this.cacheTimeout = 60 * 1000
cacheTimeout == 60 * 1000

\* this.rateLimit.maxRequests
maxRequests == 30

\* the window of the rate limiter, "Date.now() + 60000"
RateWindow == 60000

\* new MarketService() at the time now: an empty cache (the Map as the set of
\* its entries, one for a key at most), a rate limiter that has counted
\* nothing, and the cache counters of this.stats at 0
MarketService(now) ==
    [cache |-> {},
     rateLimit |-> [requests |-> 0, resetTime |-> now + RateWindow],
     stats |-> [cacheHits |-> 0, cacheMisses |-> 0]]

\* the service as constructed at time 0, no call in flight, nothing observed
InitService ==
    /\ service = MarketService(0)
    /\ clock = 0
    /\ calls = EmptyBag
    /\ trace = <<>>

-----------------------------------------------------------------------------
(* Numbers *)

Abs(n) == IF n < 0 THEN -n ELSE n

\* b, once a has been evaluated: TLC evaluates definitions on demand, and a long
\* computation first demanded deep inside another one overflows its stack
After(a, b) == IF a = a THEN b ELSE b

RECURSIVE GCD(_, _)
GCD(a, b) == IF b = 0 THEN a ELSE GCD(b, a % b)

Rat(n, d) ==
    LET g == GCD(Abs(n), Abs(d))
        s == IF d < 0 THEN -1 ELSE 1
    IN <<(s * n) \div g, (s * d) \div g>>

Num(n) == <<n, 1>>

NULL == <<0, 0>>

Zero == <<0, 1>>

One == <<1, 1>>

Half == <<1, 2>>

RAdd(x, y) ==
    LET g == GCD(x[2], y[2])
    IN After(<<x, y>>,
             Rat(x[1] * (y[2] \div g) + y[1] * (x[2] \div g), (x[2] \div g) * y[2]))

RNeg(x) == <<-x[1], x[2]>>

RSub(x, y) == RAdd(x, RNeg(y))

RMul(x, y) ==
    LET g1 == GCD(Abs(x[1]), y[2])
        g2 == GCD(Abs(y[1]), x[2])
    IN After(<<x, y>>,
             Rat((x[1] \div g1) * (y[1] \div g2), (x[2] \div g2) * (y[2] \div g1)))

\* x / y for y # 0 (no division by zero occurs on positive prices)
RDiv(x, y) == RMul(x, IF y[1] < 0 THEN <<-y[2], -y[1]>> ELSE <<y[2], y[1]>>)

RLt(x, y) == RSub(x, y)[1] < 0

RLe(x, y) == RSub(x, y)[1] <= 0

RGt(x, y) == RLt(y, x)

RGe(x, y) == RLe(y, x)

RMax(x, y) == IF RLt(x, y) THEN y ELSE x

RMin(x, y) == IF RLt(y, x) THEN y ELSE x

RAbs(x) == <<Abs(x[1]), x[2]>>

\* Math.max(0, Math.min(1, x))
Clamp01(x) == RMax(Zero, RMin(One, x))

\* JavaScript truthiness of a number or null: null, undefined and 0 are falsy
Truthy(x) == x # NULL /\ x[1] # 0

\* a || b
Or(a, b) == IF Truthy(a) THEN a ELSE b

\* Math.round(x): nearest integer, halves towards +Infinity
Round(x) == (2 * x[1] + x[2]) \div (2 * x[2])

RECURSIVE ScaledFloor(_, _, _, _)
\* floor((q + r/d) * 10^k) by long division, q and r from n \div d and n % d
ScaledFloor(q, r, d, k) ==
    IF k = 0 THEN q
    ELSE ScaledFloor(q * 10 + (r * 10) \div d, (r * 10) % d, d, k - 1)

RECURSIVE ISqrtIter(_, _, _)
ISqrtIter(n, lo, hi) ==
    IF hi - lo <= 1 THEN lo
    ELSE LET mid == (lo + hi) \div 2
         IN IF mid * mid <= n THEN ISqrtIter(n, mid, hi) ELSE ISqrtIter(n, lo, mid)

\* floor of the square root of a natural number below 46341^2
ISqrt(n) == ISqrtIter(n, 0, 46341)

\* Math.sqrt(x), 0 <= x < 2147: exact on squares, else truncated to 3 decimals
Sqrt(x) ==
    LET rn == ISqrt(x[1])
        rd == ISqrt(x[2])
    IN IF rn * rn = x[1] /\ rd * rd = x[2] THEN Rat(rn, rd)
       ELSE Rat(ISqrt(ScaledFloor(x[1] \div x[2], x[1] % x[2], x[2], 6)), 1000)

-----------------------------------------------------------------------------
(* Array helpers *)

(* Every loop below runs over the indices lo..hi in increasing order from the *)
(* state acc; a range of more than one index is run as its two halves in     *)
(* sequence (comparing left with acc makes TLC finish the first half before  *)
(* it starts the second, which keeps its evaluation stack shallow).          *)

RECURSIVE SumLoop(_, _, _, _)
SumLoop(arr, lo, hi, acc) ==
    IF lo > hi THEN acc
    ELSE IF lo = hi THEN RAdd(acc, arr[lo])
    ELSE LET mid == (lo + hi) \div 2
             left == SumLoop(arr, lo, mid, acc)
         IN IF left = acc THEN SumLoop(arr, mid + 1, hi, acc)
            ELSE SumLoop(arr, mid + 1, hi, left)

\* arr.reduce((a, b) => a + b, 0)
Sum(arr) == SumLoop(arr, 1, Len(arr), Zero)

RECURSIVE SumSqDevLoop(_, _, _, _, _)
SumSqDevLoop(arr, mean, lo, hi, acc) ==
    IF lo > hi THEN acc
    ELSE IF lo = hi
    THEN LET dev == RSub(arr[lo], mean) IN RAdd(acc, RMul(dev, dev))
    ELSE LET mid == (lo + hi) \div 2
             left == SumSqDevLoop(arr, mean, lo, mid, acc)
         IN IF left = acc THEN SumSqDevLoop(arr, mean, mid + 1, hi, acc)
            ELSE SumSqDevLoop(arr, mean, mid + 1, hi, left)

\* arr.reduce((a, b) => a + Math.pow(b - mean, 2), 0)
SumSqDev(arr, mean) == SumSqDevLoop(arr, mean, 1, Len(arr), Zero)

\* arr.slice(-n) for Len(arr) >= n
Last(arr, n) == SubSeq(arr, Len(arr) - n + 1, Len(arr))

-----------------------------------------------------------------------------
(* Indicator calculator *)

\* sample standard deviation of a non-empty array; (arr.length - 1 || 1)
std(arr) ==
    LET mean == RDiv(Sum(arr), Num(Len(arr)))
        den == IF Len(arr) - 1 # 0 THEN Len(arr) - 1 ELSE 1
        variance == RDiv(SumSqDev(arr, mean), Num(den))
    IN After(mean, Sqrt(variance))

\* normalize without the clamp to [0,1]
normalizeUnclamped(x, min, max) ==
    IF max = min THEN Half
    ELSE RDiv(RSub(x, min), RSub(max, min))

\* normalize with 0 returned on the degenerate range max === min
normalizeDegenerateZero(x, min, max) ==
    IF max = min THEN Zero
    ELSE Clamp01(RDiv(RSub(x, min), RSub(max, min)))

\* normalize measuring x from max, "(max - x) / (max - min)"
normalizeFromMax(x, min, max) ==
    IF max = min THEN Half
    ELSE Clamp01(RDiv(RSub(max, x), RSub(max, min)))

normalize(x, min, max) ==
    IF max = min THEN Half
    ELSE Clamp01(RDiv(RSub(x, min), RSub(max, min)))

RECURSIVE EMALoop(_, _, _, _, _)
\* acc = <<ema, result>>
EMALoop(src, k, lo, hi, acc) ==
    IF lo > hi THEN acc
    ELSE IF lo = hi
    THEN LET e == RAdd(RMul(src[lo], k), RMul(acc[1], RSub(One, k)))
         IN <<e, Append(acc[2], e)>>
    ELSE LET mid == (lo + hi) \div 2
             left == EMALoop(src, k, lo, mid, acc)
         IN IF left = acc THEN EMALoop(src, k, mid + 1, hi, acc)
            ELSE EMALoop(src, k, mid + 1, hi, left)

\* calculateEMA of a non-empty array
calculateEMA(src, period) ==
    EMALoop(src, Rat(2, period + 1), 2, Len(src), <<src[1], <<src[1]>>>>)[2]

MACDFast == 12

MACDSlow == 26

MACDSignal == 9

\* calculateMACD gated on the fast period, "prices.length < 12"
calculateMACDGateFast(prices) ==
    IF Len(prices) < MACDFast THEN [macd |-> Zero, signal |-> Zero, histogram |-> Zero]
    ELSE LET ema12 == calculateEMA(prices, MACDFast)
             ema26 == calculateEMA(prices, MACDSlow)
             macdLine == [i \in 1..Len(prices) |-> RSub(ema12[i], ema26[i])]
             signalLine == calculateEMA(macdLine, MACDSignal)
             n == Len(prices)
         IN After(<<ema12, ema26>>,
                  [macd |-> macdLine[n],
                   signal |-> signalLine[n],
                   histogram |-> RSub(macdLine[n], signalLine[n])])

calculateMACD(prices) ==
    IF Len(prices) < MACDSlow THEN [macd |-> Zero, signal |-> Zero, histogram |-> Zero]
    ELSE LET ema12 == calculateEMA(prices, MACDFast)
             ema26 == calculateEMA(prices, MACDSlow)
             macdLine == [i \in 1..Len(prices) |-> RSub(ema12[i], ema26[i])]
             signalLine == calculateEMA(macdLine, MACDSignal)
             n == Len(prices)
         IN After(<<ema12, ema26>>,
                  [macd |-> macdLine[n],
                   signal |-> signalLine[n],
                   histogram |-> RSub(macdLine[n], signalLine[n])])

BollingerPeriod == 20

BollingerStdDev == 2

\* calculateBollingerBands with bands at sma +- stdDev, the "* std" forgotten
calculateBollingerBandsFixedWidth(prices) ==
    IF Len(prices) < BollingerPeriod THEN [upper |-> Zero, middle |-> Zero, lower |-> Zero]
    ELSE LET slice == Last(prices, BollingerPeriod)
             sma == RDiv(Sum(slice), Num(BollingerPeriod))
         IN [upper |-> RAdd(sma, Num(BollingerStdDev)),
             middle |-> sma,
             lower |-> RSub(sma, Num(BollingerStdDev))]

calculateBollingerBands(prices) ==
    IF Len(prices) < BollingerPeriod THEN [upper |-> Zero, middle |-> Zero, lower |-> Zero]
    ELSE LET slice == Last(prices, BollingerPeriod)
             sma == RDiv(Sum(slice), Num(BollingerPeriod))
             variance == RDiv(SumSqDev(slice, sma), Num(BollingerPeriod))
             stdDeviation == After(sma, Sqrt(variance))
         IN [upper |-> RAdd(sma, RMul(Num(BollingerStdDev), stdDeviation)),
             middle |-> sma,
             lower |-> RSub(sma, RMul(Num(BollingerStdDev), stdDeviation))]

RSIPeriod == 14

RECURSIVE RSILoop(_, _, _, _)
\* acc = <<gains, losses>>
RSILoop(prices, lo, hi, acc) ==
    IF lo > hi THEN acc
    ELSE IF lo = hi
    THEN LET change == RSub(prices[lo], prices[lo - 1])
         IN IF RGt(change, Zero)
            THEN <<RAdd(acc[1], change), acc[2]>>
            ELSE <<acc[1], RSub(acc[2], change)>>
    ELSE LET mid == (lo + hi) \div 2
             left == RSILoop(prices, lo, mid, acc)
         IN IF left = acc THEN RSILoop(prices, mid + 1, hi, acc)
            ELSE RSILoop(prices, mid + 1, hi, left)

\* calculateRSI with the neutral 50 returned when there are no losses
calculateRSINeutral(prices) ==
    IF Len(prices) < RSIPeriod + 1 THEN Num(50)
    ELSE LET gl == RSILoop(prices, Len(prices) - RSIPeriod + 1, Len(prices), <<Zero, Zero>>)
             avgGain == RDiv(gl[1], Num(RSIPeriod))
             avgLoss == RDiv(gl[2], Num(RSIPeriod))
         IN IF avgLoss = Zero THEN Num(50)
            ELSE LET rs == RDiv(avgGain, avgLoss)
                 IN RSub(Num(100), RDiv(Num(100), RAdd(One, rs)))

\* calculateRSI with a check "if (avgGain === 0) return 0" ahead of the avgLoss check
calculateRSIGainFirst(prices) ==
    IF Len(prices) < RSIPeriod + 1 THEN Num(50)
    ELSE LET gl == RSILoop(prices, Len(prices) - RSIPeriod + 1, Len(prices), <<Zero, Zero>>)
             avgGain == RDiv(gl[1], Num(RSIPeriod))
             avgLoss == RDiv(gl[2], Num(RSIPeriod))
         IN IF avgGain = Zero THEN Zero
            ELSE IF avgLoss = Zero THEN Num(100)
            ELSE LET rs == RDiv(avgGain, avgLoss)
                 IN RSub(Num(100), RDiv(Num(100), RAdd(One, rs)))

calculateRSI(prices) ==
    IF Len(prices) < RSIPeriod + 1 THEN Num(50)
    ELSE LET gl == RSILoop(prices, Len(prices) - RSIPeriod + 1, Len(prices), <<Zero, Zero>>)
             avgGain == RDiv(gl[1], Num(RSIPeriod))
             avgLoss == RDiv(gl[2], Num(RSIPeriod))
         IN IF avgLoss = Zero THEN Num(100)
            ELSE LET rs == RDiv(avgGain, avgLoss)
                 IN RSub(Num(100), RDiv(Num(100), RAdd(One, rs)))

TradingDays == 252

\* riskFreeRate = 0.06
calculateSharpeRatio(returns) ==
    IF Len(returns) = 0 THEN Zero
    ELSE LET avgReturn == RDiv(Sum(returns), Num(Len(returns)))
             annualizedReturn == RMul(avgReturn, Num(TradingDays))
             volatility == RMul(std(returns), Sqrt(Num(TradingDays)))
         IN IF volatility = Zero THEN Zero
            ELSE RDiv(RSub(annualizedReturn, Rat(6, 100)), volatility)

RECURSIVE DrawdownLoopTrough(_, _, _, _)
\* DrawdownLoop with the fall measured against the current price, not the peak
DrawdownLoopTrough(prices, lo, hi, acc) ==
    IF lo > hi THEN acc
    ELSE IF lo = hi
    THEN LET peak == IF RGt(prices[lo], acc[1]) THEN prices[lo] ELSE acc[1]
             dd == RDiv(RSub(peak, prices[lo]), prices[lo])
         IN <<peak, IF RGt(dd, acc[2]) THEN dd ELSE acc[2]>>
    ELSE LET mid == (lo + hi) \div 2
             left == DrawdownLoopTrough(prices, lo, mid, acc)
         IN IF left = acc THEN DrawdownLoopTrough(prices, mid + 1, hi, acc)
            ELSE DrawdownLoopTrough(prices, mid + 1, hi, left)

RECURSIVE DrawdownLoop(_, _, _, _)
\* acc = <<peak, maxDD>>
DrawdownLoop(prices, lo, hi, acc) ==
    IF lo > hi THEN acc
    ELSE IF lo = hi
    THEN LET peak == IF RGt(prices[lo], acc[1]) THEN prices[lo] ELSE acc[1]
             dd == RDiv(RSub(peak, prices[lo]), peak)
         IN <<peak, IF RGt(dd, acc[2]) THEN dd ELSE acc[2]>>
    ELSE LET mid == (lo + hi) \div 2
             left == DrawdownLoop(prices, lo, mid, acc)
         IN IF left = acc THEN DrawdownLoop(prices, mid + 1, hi, acc)
            ELSE DrawdownLoop(prices, mid + 1, hi, left)

\* on an empty array prices[0] is undefined and the loop body never runs
calculateMaxDrawdown(prices) ==
    IF Len(prices) = 0 THEN Zero
    ELSE DrawdownLoop(prices, 2, Len(prices), <<prices[1], Zero>>)[2]

-----------------------------------------------------------------------------
(* Sentiment aggregator *)

RECURSIVE SentimentLoop(_, _, _, _)
\* the forEach of enhancedSentimentScore: <<score, count>>; a count of 0 is falsy
SentimentLoop(recommendations, i, sc, count) ==
    IF i > Len(recommendations) THEN <<sc, count>>
    ELSE LET rec == recommendations[i]
             s1 == IF rec.strongBuy # 0 THEN sc + rec.strongBuy * 2 ELSE sc
             c1 == IF rec.strongBuy # 0 THEN count + rec.strongBuy ELSE count
             s2 == IF rec.buy # 0 THEN s1 + rec.buy * 1 ELSE s1
             c2 == IF rec.buy # 0 THEN c1 + rec.buy ELSE c1
             s3 == IF rec.sell # 0 THEN s2 - rec.sell * 1 ELSE s2
             c3 == IF rec.sell # 0 THEN c2 + rec.sell ELSE c2
             s4 == IF rec.strongSell # 0 THEN s3 - rec.strongSell * 2 ELSE s3
             c4 == IF rec.strongSell # 0 THEN c3 + rec.strongSell ELSE c3
         IN SentimentLoop(recommendations, i + 1, s4, c4)

\* enhancedSentimentScore with raw = score / count, the "* 2" forgotten
enhancedSentimentScoreUnscaled(recommendations) ==
    IF Len(recommendations) = 0 THEN Half
    ELSE LET sc == SentimentLoop(recommendations, 1, 0, 0)
         IN IF sc[2] = 0 THEN Half
            ELSE LET raw == Rat(sc[1], sc[2])
                 IN Clamp01(RDiv(RAdd(raw, One), Num(2)))

enhancedSentimentScore(recommendations) ==
    IF Len(recommendations) = 0 THEN Half
    ELSE LET sc == SentimentLoop(recommendations, 1, 0, 0)
         IN IF sc[2] = 0 THEN Half
            ELSE LET raw == Rat(sc[1], sc[2] * 2)
                 IN Clamp01(RDiv(RAdd(raw, One), Num(2)))

toStars(x) ==
    LET scaled == Clamp01(x)
    IN Rat(Round(RMul(scaled, Num(50))), 10)

-----------------------------------------------------------------------------
(* Component scorers *)

\* "if (cond) { score += term * w; count += w; }" on acc = <<score, count>>
Accum(cond, acc, term, w) ==
    IF cond THEN <<RAdd(acc[1], RMul(term, w)), RAdd(acc[2], w)>> ELSE acc

\* "x !== null && x > 0"
Positive(x) == x # NULL /\ RGt(x, Zero)

\* count > 0 ? score / (count + (1 - count) * 0.5) : 0.5
ValuationOf(acc) ==
    IF RGt(acc[2], Zero)
    THEN RDiv(acc[1], RAdd(acc[2], RMul(RSub(One, acc[2]), Half)))
    ELSE Half

\* count > 0 ? score / count : dflt
GrowthOf(acc, dflt) == IF RGt(acc[2], Zero) THEN RDiv(acc[1], acc[2]) ELSE dflt

valComp(pe, forwardPE, pb, ps, roe) ==
    LET a1 == Accum(Positive(pe), <<Half, Zero>>,
                    normalize(RDiv(One, pe), Rat(1, 50), Rat(1, 5)), Rat(35, 100))
        a2 == Accum(Positive(forwardPE), a1,
                    normalize(RDiv(One, forwardPE), Rat(1, 40), Rat(1, 8)), Rat(15, 100))
        a3 == Accum(Positive(pb), a2,
                    normalize(RDiv(One, pb), Rat(1, 8), Rat(10, 8)), Rat(25, 100))
        a4 == Accum(Positive(ps), a3,
                    normalize(RDiv(One, ps), Rat(1, 10), Num(2)), Rat(15, 100))
        a5 == Accum(Positive(roe), a4,
                    normalize(roe, Rat(5, 100), Rat(30, 100)), Rat(10, 100))
    IN ValuationOf(a5)

\* growthComp with 0 for "no growth figure at all" instead of the neutral 0.5
growthCompZeroDefault(earningsGrowth, revenueGrowth, freeCashflow, roe) ==
    LET a1 == Accum(earningsGrowth # NULL, <<Zero, Zero>>,
                    normalize(earningsGrowth, Rat(-3, 10), Rat(5, 10)), Rat(4, 10))
        a2 == Accum(revenueGrowth # NULL, a1,
                    normalize(revenueGrowth, Rat(-2, 10), Rat(4, 10)), Rat(3, 10))
        a3 == Accum(Positive(freeCashflow), a2, One, Rat(15, 100))
        a4 == Accum(roe # NULL, a3, normalize(roe, Zero, Rat(35, 100)), Rat(15, 100))
    IN GrowthOf(a4, Zero)

growthComp(earningsGrowth, revenueGrowth, freeCashflow, roe) ==
    LET a1 == Accum(earningsGrowth # NULL, <<Zero, Zero>>,
                    normalize(earningsGrowth, Rat(-3, 10), Rat(5, 10)), Rat(4, 10))
        a2 == Accum(revenueGrowth # NULL, a1,
                    normalize(revenueGrowth, Rat(-2, 10), Rat(4, 10)), Rat(3, 10))
        a3 == Accum(Positive(freeCashflow), a2, One, Rat(15, 100))
        a4 == Accum(roe # NULL, a3, normalize(roe, Zero, Rat(35, 100)), Rat(15, 100))
    IN GrowthOf(a4, Half)

\* the moving-average crossover term of momentumComp
CrossoverTerm(ma50, ma200, currentPrice) ==
    IF Truthy(ma50) /\ Truthy(ma200) /\ Truthy(currentPrice)
    THEN IF RGt(currentPrice, ma50) /\ RGt(ma50, ma200) THEN Rat(15, 100)
         ELSE IF RGt(currentPrice, ma50) \/ RGt(ma50, ma200) THEN Rat(75, 1000)
         ELSE Rat(25, 1000)
    ELSE Rat(5, 100)

\* (targetMeanPrice - currentPrice) / currentPrice, both truthy
Upside(targetMeanPrice, currentPrice) ==
    RDiv(RSub(targetMeanPrice, currentPrice), currentPrice)

momentumComp(ind, currentPrice, targetMeanPrice) ==
    LET s1 == RMul(normalize(ind.momentum12m, Rat(-5, 10), One), Rat(20, 100))
        s2 == RAdd(s1, RMul(normalize(ind.momentum6m, Rat(-3, 10), Rat(8, 10)), Rat(15, 100)))
        s3 == RAdd(s2, RMul(normalize(ind.momentum3m, Rat(-2, 10), Rat(5, 10)), Rat(10, 100)))
        s4 == RAdd(s3, RMul(normalize(ind.rsi, Num(20), Num(80)), Rat(20, 100)))
        s5 == RAdd(s4, IF RGt(ind.macd.histogram, Zero) THEN Rat(10, 100) ELSE Rat(5, 100))
        s6 == RAdd(s5, CrossoverTerm(ind.ma50, ind.ma200, currentPrice))
        s7 == IF Truthy(targetMeanPrice) /\ Truthy(currentPrice)
              THEN RAdd(s6, RMul(normalize(Upside(targetMeanPrice, currentPrice),
                                           Rat(-3, 10), Rat(5, 10)), Rat(5, 100)))
              ELSE s6
    IN Clamp01(s7)

riskComp(ind, beta, debtToEquity) ==
    LET r1 == RMul(IF Truthy(ind.volatility)
                   THEN normalize(ind.volatility, Rat(1, 10), Rat(8, 10))
                   ELSE Rat(15, 100), Rat(30, 100))
        r2 == RAdd(r1, RMul(normalize(RAbs(RSub(beta, One)), Zero, Rat(15, 10)), Rat(20, 100)))
        r3 == RAdd(r2, RMul(normalize(ind.maxDrawdown, Zero, Rat(6, 10)), Rat(25, 100)))
        r4 == RAdd(r3, RMul(IF RGt(ind.sharpeRatio, Zero)
                            THEN RSub(One, normalize(ind.sharpeRatio, Num(-1), Num(3)))
                            ELSE One, Rat(15, 100)))
        r5 == RAdd(r4, RMul(IF debtToEquity # NULL
                            THEN normalize(debtToEquity, Zero, Num(2))
                            ELSE Half, Rat(10, 100)))
    IN Clamp01(r5)

-----------------------------------------------------------------------------
(* Composite scorer *)

rawScore(val, growth, momentum, sentiment, risk) ==
    RSub(RAdd(RAdd(RAdd(RMul(Rat(30, 100), val), RMul(Rat(25, 100), growth)),
                   RMul(Rat(15, 100), momentum)),
              RMul(Rat(15, 100), sentiment)),
         RMul(Rat(15, 100), risk))

\* score without the boost of "* 1.2 + 0.1"
scoreUnboosted(raw) == Clamp01(raw)

score(raw) == Clamp01(RAdd(RMul(raw, Rat(12, 10)), Rat(1, 10)))

\* riskLabel with every ">=" read as ">"
riskLabelStrict(sc) ==
    IF RGt(sc, Rat(85, 100)) THEN "High Risk-High Reward"
    ELSE IF RGt(sc, Rat(70, 100)) THEN "Moderate"
    ELSE IF RGt(sc, Rat(50, 100)) THEN "Balanced"
    ELSE IF RGt(sc, Rat(30, 100)) THEN "Cautious"
    ELSE "High Risk"

riskLabel(sc) ==
    IF RGe(sc, Rat(85, 100)) THEN "High Risk-High Reward"  \* en dash in the source
    ELSE IF RGe(sc, Rat(70, 100)) THEN "Moderate"
    ELSE IF RGe(sc, Rat(50, 100)) THEN "Balanced"
    ELSE IF RGe(sc, Rat(30, 100)) THEN "Cautious"
    ELSE "High Risk"

projReturn(momentum12m, growth, val, sentiment, targetMeanPrice, currentPrice) ==
    LET p0 == RAdd(RAdd(RAdd(RMul(momentum12m, Rat(25, 100)),
                             RMul(RSub(growth, Half), Rat(35, 100))),
                        RMul(RSub(val, Half), Rat(30, 100))),
                   RMul(RSub(sentiment, Half), Rat(10, 100)))
        p1 == IF Truthy(targetMeanPrice) /\ Truthy(currentPrice)
              THEN RAdd(RMul(p0, Rat(6, 10)),
                        RMul(Upside(targetMeanPrice, currentPrice), Rat(4, 10)))
              ELSE p0
    IN Round(RMul(p1, Num(100)))

\* confidence with "closes.length > 200" for "closes.length >= 200"
confidenceOver200(closesLen, recsLen, pe, pb, earningsGrowth, targetMeanPrice) ==
    LET c1 == 50 + (IF closesLen > 200 THEN 15 ELSE 0)
        c2 == c1 + (IF recsLen >= 3 THEN 10 ELSE 0)
        c3 == c2 + (IF pe # NULL /\ pb # NULL THEN 10 ELSE 0)
        c4 == c3 + (IF earningsGrowth # NULL THEN 10 ELSE 0)
        c5 == c4 + (IF targetMeanPrice # NULL THEN 5 ELSE 0)
    IN IF c5 < 95 THEN c5 ELSE 95

confidence(closesLen, recsLen, pe, pb, earningsGrowth, targetMeanPrice) ==
    LET c1 == 50 + (IF closesLen >= 200 THEN 15 ELSE 0)
        c2 == c1 + (IF recsLen >= 3 THEN 10 ELSE 0)
        c3 == c2 + (IF pe # NULL /\ pb # NULL THEN 10 ELSE 0)
        c4 == c3 + (IF earningsGrowth # NULL THEN 10 ELSE 0)
        c5 == c4 + (IF targetMeanPrice # NULL THEN 5 ELSE 0)
    IN IF c5 < 95 THEN c5 ELSE 95

-----------------------------------------------------------------------------
(* handleSearch *)

\* closes = data.historical.filter(h => h.close !== null && h.close !== undefined)
FilterCloses(historical) == SelectSeq(historical, LAMBDA c : c # NULL)

\* (end - closes[closes.length - w]) / closes[closes.length - w]
TrailingReturn(closes, w) ==
    LET end == closes[Len(closes)]
        base == closes[Len(closes) - w + 1]
    IN RDiv(RSub(end, base), base)

DefaultIndicators ==
    [momentum12m |-> Zero, momentum6m |-> Zero, momentum3m |-> Zero, rsi |-> Num(50),
     ma50 |-> NULL, ma200 |-> NULL, volatility |-> Zero, sharpeRatio |-> Zero,
     maxDrawdown |-> Zero,
     macd |-> [macd |-> Zero, signal |-> Zero, histogram |-> Zero],
     bollingerBands |-> [upper |-> Zero, middle |-> Zero, lower |-> Zero]]

\* the indicator block gated on "closes.length > 14", the need of calculateRSI alone
IndicatorsGate14(closes) ==
    IF Len(closes) > 14
    THEN LET n == Len(closes)
             dailyReturns ==
                 [i \in 1..(n - 1) |-> RDiv(RSub(closes[i + 1], closes[i]), closes[i])]
         IN [momentum12m |-> IF n >= 252 THEN TrailingReturn(closes, 252)
                             ELSE TrailingReturn(closes, n),
             momentum6m |-> IF n >= 126 THEN TrailingReturn(closes, 126) ELSE Zero,
             momentum3m |-> IF n >= 63 THEN TrailingReturn(closes, 63) ELSE Zero,
             rsi |-> calculateRSI(closes),
             macd |-> calculateMACD(closes),
             bollingerBands |-> calculateBollingerBands(closes),
             ma50 |-> IF n >= 50 THEN RDiv(Sum(Last(closes, 50)), Num(50)) ELSE NULL,
             ma200 |-> IF n >= 200 THEN RDiv(Sum(Last(closes, 200)), Num(200)) ELSE NULL,
             volatility |-> RMul(std(dailyReturns), Sqrt(Num(TradingDays))),
             sharpeRatio |-> calculateSharpeRatio(dailyReturns),
             maxDrawdown |-> calculateMaxDrawdown(closes)]
    ELSE DefaultIndicators

\* the indicator block gated on "closes.length >= 30"
IndicatorsFrom30(closes) ==
    IF Len(closes) >= 30
    THEN LET n == Len(closes)
             dailyReturns ==
                 [i \in 1..(n - 1) |-> RDiv(RSub(closes[i + 1], closes[i]), closes[i])]
         IN [momentum12m |-> IF n >= 252 THEN TrailingReturn(closes, 252)
                             ELSE TrailingReturn(closes, n),
             momentum6m |-> IF n >= 126 THEN TrailingReturn(closes, 126) ELSE Zero,
             momentum3m |-> IF n >= 63 THEN TrailingReturn(closes, 63) ELSE Zero,
             rsi |-> calculateRSI(closes),
             macd |-> calculateMACD(closes),
             bollingerBands |-> calculateBollingerBands(closes),
             ma50 |-> IF n >= 50 THEN RDiv(Sum(Last(closes, 50)), Num(50)) ELSE NULL,
             ma200 |-> IF n >= 200 THEN RDiv(Sum(Last(closes, 200)), Num(200)) ELSE NULL,
             volatility |-> RMul(std(dailyReturns), Sqrt(Num(TradingDays))),
             sharpeRatio |-> calculateSharpeRatio(dailyReturns),
             maxDrawdown |-> calculateMaxDrawdown(closes)]
    ELSE DefaultIndicators

\* the indicator block of handleSearch
Indicators(closes) ==
    IF Len(closes) > 30
    THEN LET n == Len(closes)
             dailyReturns ==
                 [i \in 1..(n - 1) |-> RDiv(RSub(closes[i + 1], closes[i]), closes[i])]
         IN [momentum12m |-> IF n >= 252 THEN TrailingReturn(closes, 252)
                             ELSE TrailingReturn(closes, n),
             momentum6m |-> IF n >= 126 THEN TrailingReturn(closes, 126) ELSE Zero,
             momentum3m |-> IF n >= 63 THEN TrailingReturn(closes, 63) ELSE Zero,
             rsi |-> calculateRSI(closes),
             macd |-> calculateMACD(closes),
             bollingerBands |-> calculateBollingerBands(closes),
             ma50 |-> IF n >= 50 THEN RDiv(Sum(Last(closes, 50)), Num(50)) ELSE NULL,
             ma200 |-> IF n >= 200 THEN RDiv(Sum(Last(closes, 200)), Num(200)) ELSE NULL,
             volatility |-> RMul(std(dailyReturns), Sqrt(Num(TradingDays))),
             sharpeRatio |-> calculateSharpeRatio(dailyReturns),
             maxDrawdown |-> calculateMaxDrawdown(closes)]
    ELSE DefaultIndicators

\* the labels pushed to explanation (the formatted numbers are left out)
Explanation(pe, forwardPE, pb, roe, ind, earningsGrowth) ==
    (IF pe # NULL THEN <<"P/E">> ELSE <<>>)
    \o (IF forwardPE # NULL THEN <<"Fwd P/E">> ELSE <<>>)
    \o (IF pb # NULL THEN <<"P/B">> ELSE <<>>)
    \o (IF roe # NULL THEN <<"ROE">> ELSE <<>>)
    \o (IF Truthy(ind.momentum12m) THEN <<"12M Return">> ELSE <<>>)
    \o (IF Truthy(ind.rsi) THEN <<"RSI">> ELSE <<>>)
    \o (IF Truthy(ind.macd.macd) THEN <<"MACD">> ELSE <<>>)
    \o (IF earningsGrowth # NULL THEN <<"Earnings Growth">> ELSE <<>>)
    \o <<"Analyst Sentiment">>
    \o (IF Truthy(ind.sharpeRatio) THEN <<"Sharpe">> ELSE <<>>)

\* the figures handleSearch extracts from the response d
Extracted(d) ==
    [currentPrice |-> Or(Or(d.regularMarketPrice, d.price), NULL),
     pe |-> Or(Or(d.statTrailingPE, d.quoteTrailingPE), NULL),
     forwardPE |-> Or(Or(d.statForwardPE, d.sdForwardPE), NULL),
     pb |-> Or(Or(d.statPriceToBook, d.quotePriceToBook), NULL),
     ps |-> Or(d.priceToSales, NULL),
     beta |-> Or(Or(d.statBeta, d.sdBeta), One),
     roe |-> Or(d.returnOnEquity, NULL),
     debtToEquity |-> Or(d.debtToEquity, NULL),
     freeCashflow |-> Or(d.freeCashflow, NULL),
     earningsGrowth |-> Or(d.earningsGrowth, NULL),
     revenueGrowth |-> Or(d.revenueGrowth, NULL),
     targetMeanPrice |-> Or(d.targetMeanPrice, NULL),
     recommendations |-> d.trend,
     closes |-> FilterCloses(d.historical)]

\* the five component scores, from the extracted figures x and the indicators
Components(x, ind) ==
    [sentiment |-> enhancedSentimentScore(x.recommendations),
     val |-> valComp(x.pe, x.forwardPE, x.pb, x.ps, x.roe),
     growth |-> growthComp(x.earningsGrowth, x.revenueGrowth, x.freeCashflow, x.roe),
     momentum |-> momentumComp(ind, x.currentPrice, x.targetMeanPrice),
     risk |-> riskComp(ind, x.beta, x.debtToEquity)]

\* the object handleSearch passes to setResult
Summary(x, ind, c, sc) ==
    [currentPrice |-> x.currentPrice, pe |-> x.pe, pb |-> x.pb, beta |-> x.beta,
     valComp |-> c.val, growthComp |-> c.growth, momentumComp |-> c.momentum,
     sentimentComp |-> c.sentiment, riskComp |-> c.risk,
     score |-> sc, stars |-> toStars(sc), riskLabel |-> riskLabel(sc),
     projReturn |-> projReturn(ind.momentum12m, c.growth, c.val, c.sentiment,
                               x.targetMeanPrice, x.currentPrice),
     confidence |-> confidence(Len(x.closes), Len(x.recommendations), x.pe, x.pb,
                               x.earningsGrowth, x.targetMeanPrice),
     explanation |-> Explanation(x.pe, x.forwardPE, x.pb, x.roe, ind, x.earningsGrowth),
     recommendationsCount |-> Len(x.recommendations),
     rsi |-> ind.rsi, sharpeRatio |-> ind.sharpeRatio, maxDrawdown |-> ind.maxDrawdown,
     targetMeanPrice |-> x.targetMeanPrice,
     macd |-> ind.macd, bollingerBands |-> ind.bollingerBands,
     ma50 |-> ind.ma50, ma200 |-> ind.ma200]

\* rawScore and score of the component scores c
Scored(x, ind, c) ==
    Summary(x, ind, c, score(rawScore(c.val, c.growth, c.momentum, c.sentiment, c.risk)))

\* the scoring of handleSearch once the indicators are computed
Analysed(x, ind) == After(ind, Scored(x, ind, Components(x, ind)))

\* the body of handleSearch from the extracted figures on
Rated(x) == Analysed(x, Indicators(x.closes))

\* the object handleSearch passes to setResult for the response d
Rating(d) == Rated(Extracted(d))

-----------------------------------------------------------------------------
(* Responses of the backend, GET /api/stock/:symbol *)

\* a response with a quote object and nothing else
NoData ==
    [status |-> "ok",
     regularMarketPrice |-> NULL, price |-> NULL,
     statTrailingPE |-> NULL, quoteTrailingPE |-> NULL,
     statForwardPE |-> NULL, sdForwardPE |-> NULL,
     statPriceToBook |-> NULL, quotePriceToBook |-> NULL,
     priceToSales |-> NULL,
     statBeta |-> NULL, sdBeta |-> NULL,
     returnOnEquity |-> NULL, debtToEquity |-> NULL, freeCashflow |-> NULL,
     earningsGrowth |-> NULL, revenueGrowth |-> NULL, targetMeanPrice |-> NULL,
     trend |-> <<>>, historical |-> <<>>]

MaxHistory == 300

\* lengths around every threshold of the indicator block
HistoryLens == {0, 1, 2, 14, 15, 19, 20, 25, 26, 29, 30, 31, 49, 50, 62, 63, 125, 126,
                199, 200, 251, 252, MaxHistory}

\* the lengths at which the indicators are computed on a history that moves
MovingLens == {31, 32, 50, 63, 126, 200, 252}

\* n closes: a flat history at a, then the last two closes b and c
History(n, a, b, c) ==
    [i \in 1..n |-> IF i = n THEN Num(c) ELSE IF i = n - 1 THEN Num(b) ELSE Num(a)]

Flat(n, a) == History(n, a, a, a)

\* flat histories of every length, histories too short for the indicators with
\* any last two closes, and longer histories that end in a fall or in a rise
Histories ==
    {Flat(n, a) : n \in HistoryLens, a \in {1, 100}}
    \cup {History(n, a, b, c) : n \in {0, 1, 2, 14, 15, 29, 30},
                                 a \in {1, 2}, b \in {1, 2}, c \in {1, 2}}
    \cup {History(n, 2, 2, 1) : n \in MovingLens}
    \cup {History(n, 100, 100, 95) : n \in MovingLens}
    \cup {History(n, 100, 95, 95) : n \in MovingLens}
    \cup {History(n, 1, 2, 4) : n \in {31, 50, 126}}
    \cup {History(n, 10, 11, 10) : n \in {50, 126, 252}}
    \cup {History(252, 100, 100, 105), History(252, 100, 105, 105)}

Period(sb, b, h, s, ss) ==
    [strongBuy |-> sb, buy |-> b, hold |-> h, sell |-> s, strongSell |-> ss]

Trends ==
    {<<>>, <<Period(0, 0, 0, 0, 0)>>, <<Period(0, 0, 7, 0, 0)>>,
     <<Period(3, 0, 0, 0, 0)>>, <<Period(0, 0, 0, 0, 2)>>,
     <<Period(1, 2, 3, 1, 0)>>, <<Period(2, 1, 0, 0, 0), Period(0, 0, 4, 2, 1)>>,
     <<Period(1, 1, 1, 1, 1), Period(0, 3, 0, 0, 0), Period(0, 0, 0, 1, 2)>>}

ValuationResponses ==
    {[NoData EXCEPT !.statTrailingPE = pe, !.statForwardPE = fpe, !.statPriceToBook = pb,
                    !.priceToSales = ps, !.returnOnEquity = roe] :
        pe \in {NULL, Num(4), Num(10), Num(60), Num(-5)},
        fpe \in {NULL, Num(7), Num(20)},
        pb \in {NULL, Rat(1, 2), Num(2), Num(10)},
        ps \in {NULL, Rat(1, 4), Num(3)},
        roe \in {NULL, Zero, Rat(-1, 10), Rat(1, 10), Rat(1, 2)}}

GrowthResponses ==
    {[NoData EXCEPT !.earningsGrowth = eg, !.revenueGrowth = rg, !.freeCashflow = fcf,
                    !.returnOnEquity = roe] :
        eg \in {NULL, Zero, Rat(-1, 2), Rat(1, 10), One},
        rg \in {NULL, Zero, Rat(-1, 2), Rat(1, 10), One},
        fcf \in {NULL, Num(-1), Num(1)},
        roe \in {NULL, Rat(-1, 10), Rat(1, 10), Rat(1, 2)}}

\* the fields read from two places of the response
FallbackResponses ==
    {[NoData EXCEPT !.regularMarketPrice = a, !.price = b,
                    !.statTrailingPE = a, !.quoteTrailingPE = b,
                    !.statForwardPE = b, !.sdForwardPE = a,
                    !.statPriceToBook = a, !.quotePriceToBook = b,
                    !.statBeta = b, !.sdBeta = a, !.status = st] :
        a \in {NULL, Zero, Num(2)}, b \in {NULL, Zero, Num(3)},
        st \in {"ok", "http_error", "no_data"}}

SeriesResponses ==
    {[NoData EXCEPT !.historical = h, !.regularMarketPrice = p] :
        h \in Histories, p \in {NULL, Num(2)}}

RiskResponses ==
    {[NoData EXCEPT !.historical = h, !.statBeta = beta, !.debtToEquity = de] :
        h \in {Flat(0, 1), History(50, 100, 100, 95), History(252, 100, 100, 105),
               Flat(MaxHistory, 100)},
        beta \in {NULL, Num(-1), One, Rat(3, 2), Num(4)},
        de \in {NULL, Zero, One, Num(5)}}

MomentumResponses ==
    {[NoData EXCEPT !.historical = h, !.regularMarketPrice = p, !.targetMeanPrice = t] :
        h \in {Flat(0, 1), History(31, 1, 2, 4), History(252, 100, 105, 105),
               History(200, 2, 2, 1), Flat(MaxHistory, 100)},
        p \in {NULL, One, Num(2), Num(10)},
        t \in {NULL, One, Num(3), Num(20)}}

ConfidenceResponses ==
    {[NoData EXCEPT !.historical = Flat(n, 100), !.trend = tr, !.statTrailingPE = pe,
                    !.statPriceToBook = pb, !.earningsGrowth = eg,
                    !.targetMeanPrice = t] :
        n \in {0, 199, 200}, tr \in {t \in Trends : Len(t) # 1},
        pe \in {NULL, Num(10)}, pb \in {NULL, Num(2)},
        eg \in {NULL, Rat(1, 10)}, t \in {NULL, Num(120)}}

\* a history with missing closes, which handleSearch filters out
GappyResponses ==
    {[NoData EXCEPT !.historical = <<NULL>> \o h \o <<NULL, Num(1)>>] :
        h \in {Flat(n, 1) : n \in {0, 29, 30}}}

Responses ==
    ValuationResponses \cup GrowthResponses \cup FallbackResponses \cup SeriesResponses
    \cup RiskResponses \cup MomentumResponses \cup ConfidenceResponses \cup GappyResponses

-----------------------------------------------------------------------------
(* The search of one symbol: every scoring call is independent of the others *)

NoCall == [fn |-> "none"]

Init ==
    /\ data \in Responses
    /\ result = <<>>
    /\ error = "null"
    /\ input = NoCall
    /\ ret = <<>>
    /\ InitService

\* handleSearch, from the response of the backend on
handleSearch ==
    /\ result = <<>>
    /\ error = "null"
    /\ input = NoCall
    /\ IF data.status = "http_error"
       THEN error' = "Failed to fetch stock data from backend" /\ result' = result
       ELSE IF data.status = "no_data"
       THEN error' = "No data found for symbol. Try a different ticker." /\ result' = result
       ELSE result' = <<Rating(data)>> /\ error' = error
    /\ UNCHANGED <<data, input, ret>>
    /\ UNCHANGED backend

Next == handleSearch

Spec == Init /\ [][Next]_vars

-----------------------------------------------------------------------------
(* The indicator calculator on its own: one call on one price series *)

MaxTail == 4

MaxRamp == 17

TailPrices == {1, 2, 3}

\* a flat history at 2 of length n, then the closes of tail
WithTail(n, tail) == [i \in 1..(n + Len(tail)) |-> IF i <= n THEN Num(2) ELSE Num(tail[i - n])]

\* n closes that start at a and rise by step at every point
Ramp(n, a, step) == [i \in 1..n |-> Num(a + step * (i - 1))]

\* n closes that rise faster and faster, or stay for two points at a time
Convex(n) == [i \in 1..n |-> Num(i * i)]

Stairs(n) == [i \in 1..n |-> Num(1 + i \div 2)]

\* n closes that fall by 1 at every point down to 1
Slide(n) == [i \in 1..n |-> Num(n - i + 1)]

PriceSeries ==
    {WithTail(n, tail) : n \in {0, 11, 12, 26}, tail \in [1..MaxTail -> TailPrices]}
    \cup {WithTail(n, tail) : n \in {13, 14}, tail \in [1..2 -> TailPrices]}
    \cup {Ramp(n, a, step) : n \in 13..MaxRamp, a \in {1, 5}, step \in {1, 3}}
    \cup {Convex(n) : n \in 13..MaxRamp}
    \cup {Stairs(n) : n \in 0..MaxRamp}
    \cup {Slide(n) : n \in 13..MaxRamp}
    \cup {Flat(MaxHistory, 100)}

InitIndicators ==
    /\ data = NoData
    /\ result = <<>>
    /\ error = "null"
    /\ input \in {[fn |-> "pending", prices |-> h] : h \in PriceSeries}
    /\ ret = <<>>
    /\ InitService

CallRSI ==
    /\ input.fn = "pending"
    /\ input' = [input EXCEPT !.fn = "calculateRSI"]
    /\ ret' = <<calculateRSI(input.prices)>>
    /\ UNCHANGED <<data, result, error>>
    /\ UNCHANGED backend

CallMaxDrawdown ==
    /\ input.fn = "pending"
    /\ input' = [input EXCEPT !.fn = "calculateMaxDrawdown"]
    /\ ret' = <<calculateMaxDrawdown(input.prices)>>
    /\ UNCHANGED <<data, result, error>>
    /\ UNCHANGED backend

NextIndicators == CallRSI \/ CallMaxDrawdown

SpecIndicators == InitIndicators /\ [][NextIndicators]_vars

-----------------------------------------------------------------------------
(* The sentiment aggregator on its own: one call on one recommendation list *)

MaxPeriods == 2

\* the analyst counts of one period
Periods ==
    {Period(sb, b, h, s, ss) :
        sb \in {0, 1, 3}, b \in {0, 2}, h \in {0, 5}, s \in {0, 1}, ss \in {0, 2}}

RecommendationLists == UNION {[1..n -> Periods] : n \in 0..MaxPeriods}

InitSentiment ==
    /\ data = NoData
    /\ result = <<>>
    /\ error = "null"
    /\ input \in {[fn |-> "pending", recommendations |-> r] : r \in RecommendationLists}
    /\ ret = <<>>
    /\ InitService

CallSentiment ==
    /\ input.fn = "pending"
    /\ input' = [input EXCEPT !.fn = "enhancedSentimentScore"]
    /\ ret' = <<enhancedSentimentScore(input.recommendations)>>
    /\ UNCHANGED <<data, result, error>>
    /\ UNCHANGED backend

NextSentiment == CallSentiment

SpecSentiment == InitSentiment /\ [][NextSentiment]_vars

-----------------------------------------------------------------------------
(* The composite scorer on its own: the score and the stars of five sub-scores *)

GridDen == 4

\* sub-scores on a grid of [0,1]; the valuation sub-score can come out above 1
SubScores == {Rat(n, GridDen) : n \in 0..GridDen}

ValuationScores == SubScores \cup {Rat(GridDen + n, GridDen) : n \in 1..2}

InitComposite ==
    /\ data = NoData
    /\ result = <<>>
    /\ error = "null"
    /\ input \in {[fn |-> "pending", valComp |-> v, growthComp |-> g, momentumComp |-> m,
                   sentimentComp |-> s, riskComp |-> r] :
                      v \in ValuationScores, g \in SubScores, m \in SubScores,
                      s \in SubScores, r \in SubScores}
    /\ ret = <<>>
    /\ InitService

\* rawScore, score and stars of handleSearch
CallScore ==
    /\ input.fn = "pending"
    /\ input' = [input EXCEPT !.fn = "score"]
    /\ LET sc == score(rawScore(input.valComp, input.growthComp, input.momentumComp,
                                input.sentimentComp, input.riskComp))
       IN ret' = <<[score |-> sc, stars |-> toStars(sc)]>>
    /\ UNCHANGED <<data, result, error>>
    /\ UNCHANGED backend

NextComposite == CallScore

SpecComposite == InitComposite /\ [][NextComposite]_vars

-----------------------------------------------------------------------------
(* Properties of the indicator calculator *)

StrictlyIncreasing(prices) ==
    \A i \in 1..(Len(prices) - 1) : prices[i][1] * prices[i + 1][2] < prices[i + 1][1] * prices[i][2]

NonDecreasing(prices) ==
    \A i \in 1..(Len(prices) - 1) : prices[i][1] * prices[i + 1][2] <= prices[i + 1][1] * prices[i][2]

\* C5: calculateRSI returns a value in [0,100] for every series of positive
\* prices, and 100 for every strictly increasing series of at least 15 points
C5_RSIRange ==
    input.fn = "calculateRSI" =>
        /\ ret[1][2] > 0
        /\ 0 <= ret[1][1]
        /\ ret[1][1] <= 100 * ret[1][2]
        /\ (Len(input.prices) >= 15 /\ StrictlyIncreasing(input.prices)) => ret[1] = <<100, 1>>

\* calculateRSI has run on a strictly increasing series of at least 15 points
C5_Witness ==
    /\ input.fn = "calculateRSI"
    /\ Len(input.prices) >= 15
    /\ StrictlyIncreasing(input.prices)
    /\ ret[1] = <<100, 1>>

\* C9: calculateMaxDrawdown returns a value in [0,1] for every series of positive
\* prices, and 0 for every monotonically non-decreasing series
C9_MaxDrawdownRange ==
    input.fn = "calculateMaxDrawdown" =>
        /\ ret[1][2] > 0
        /\ 0 <= ret[1][1]
        /\ ret[1][1] <= ret[1][2]
        /\ NonDecreasing(input.prices) => ret[1][1] = 0

\* calculateMaxDrawdown has run on a series that rises without ever falling
C9_Witness ==
    /\ input.fn = "calculateMaxDrawdown"
    /\ Len(input.prices) >= 3
    /\ NonDecreasing(input.prices)
    /\ input.prices[1] # input.prices[Len(input.prices)]
    /\ ret[1] = <<0, 1>>

-----------------------------------------------------------------------------
(* Properties of the sentiment aggregator *)

RECURSIVE Total(_, _)
\* the sum over all periods of the counts of one opinion
Total(recommendations, opinion) ==
    IF recommendations = <<>> THEN 0
    ELSE Head(recommendations)[opinion] + Total(Tail(recommendations), opinion)

\* C8: enhancedSentimentScore is clamp((raw + 1) / 2, 0, 1) with raw = (2*strongBuy
\* + buy - sell - 2*strongSell) / (2 * (strongBuy + buy + sell + strongSell)) over the
\* totals of all periods, whatever the hold counts; it is 0.5 on an empty list or a
\* count of 0, 1 when only strongBuy counts are non-zero, 0 when only strongSell are
C8_SentimentFormula ==
    input.fn = "enhancedSentimentScore" =>
        LET strongBuy == Total(input.recommendations, "strongBuy")
            buy == Total(input.recommendations, "buy")
            sell == Total(input.recommendations, "sell")
            strongSell == Total(input.recommendations, "strongSell")
            count == strongBuy + buy + sell + strongSell
            num == 2 * strongBuy + buy - sell - 2 * strongSell
            \* (raw + 1) / 2 = (num + 2 * count) / (4 * count), which lies in [0,1]
            sentiment == ret[1]
        IN /\ sentiment[2] > 0
           /\ count = 0 => sentiment = <<1, 2>>
           /\ count > 0 => sentiment[1] * (4 * count) = sentiment[2] * (num + 2 * count)
           /\ 0 <= sentiment[1] /\ sentiment[1] <= sentiment[2]
           /\ (strongBuy > 0 /\ buy + sell + strongSell = 0) => sentiment = <<1, 1>>
           /\ (strongSell > 0 /\ strongBuy + buy + sell = 0) => sentiment = <<0, 1>>

\* enhancedSentimentScore has run on two periods with holds and mixed opinions
C8_Witness ==
    /\ input.fn = "enhancedSentimentScore"
    /\ Len(input.recommendations) = 2
    /\ input.recommendations[1].strongBuy = 3
    /\ input.recommendations[1].hold = 5
    /\ input.recommendations[2].sell = 1
    /\ input.recommendations[2].strongSell = 2
    /\ ret[1] \notin {<<1, 2>>, <<0, 1>>, <<1, 1>>}

-----------------------------------------------------------------------------
(* Properties of the composite scorer *)

\* C3: the final score is clamp(raw * 1.2 + 0.1, 0, 1) with raw = 0.30*valuation
\* + 0.25*growth + 0.15*momentum + 0.15*sentiment - 0.15*risk, so it lies in [0,1],
\* and the stars are score * 5 rounded to one decimal: a multiple of 0.1 in [0,5]
C3_ScoreAndStars ==
    input.fn = "score" =>
        LET \* the sub-scores in units of 1/den, and raw * 1.2 + 0.1 in units of 1/(1000*den)
            den == input.valComp[2] * input.growthComp[2] * input.momentumComp[2]
                   * input.sentimentComp[2] * input.riskComp[2]
            Units(x) == x[1] * (den \div x[2])
            boosted == 12 * (30 * Units(input.valComp) + 25 * Units(input.growthComp)
                             + 15 * Units(input.momentumComp)
                             + 15 * Units(input.sentimentComp)
                             - 15 * Units(input.riskComp)) + 100 * den
            sc == ret[1].score
            stars == ret[1].stars
        IN /\ sc[2] > 0 /\ stars[2] > 0
           /\ boosted <= 0 => sc[1] = 0
           /\ boosted >= 1000 * den => sc = <<1, 1>>
           /\ (0 < boosted /\ boosted < 1000 * den) => sc[1] * (1000 * den) = sc[2] * boosted
           /\ 0 <= sc[1] /\ sc[1] <= sc[2]
           \* stars * 10 is an integer between 0 and 50, nearest to score * 50
           /\ 10 % stars[2] = 0
           /\ 0 <= stars[1] /\ stars[1] <= 5 * stars[2]
           /\ LET tenths == stars[1] * (10 \div stars[2])
              IN /\ 2 * (tenths * sc[2] - 50 * sc[1]) <= sc[2]
                 /\ 2 * (50 * sc[1] - tenths * sc[2]) <= sc[2]

\* the score of sub-scores that is clamped neither at 0 nor at 1, with stars that
\* had to be rounded
C3_Witness ==
    /\ input.fn = "score"
    /\ ret[1].score[1] > 0
    /\ ret[1].score # <<1, 1>>
    /\ (50 * ret[1].score[1]) % ret[1].score[2] # 0
    /\ input.riskComp[1] > 0
    /\ input.valComp[1] > input.valComp[2]

-----------------------------------------------------------------------------
(* Properties of the rating of handleSearch *)

\* the rational x lies in [0,1]
InUnit(x) == x[2] > 0 /\ 0 <= x[1] /\ x[1] <= x[2]

\* the field x of a response is absent or a positive number
AbsentOrPositive(x) == x = NULL \/ (x[2] > 0 /\ x[1] > 0)

\* C1: whichever of trailing P/E, forward P/E, P/B, P/S and ROE are present, and
\* whatever their positive values, the valuation sub-score lies in [0,1]
C1_ValuationInUnit ==
    (/\ result # <<>>
     /\ AbsentOrPositive(data.statTrailingPE) /\ AbsentOrPositive(data.quoteTrailingPE)
     /\ AbsentOrPositive(data.statForwardPE) /\ AbsentOrPositive(data.sdForwardPE)
     /\ AbsentOrPositive(data.statPriceToBook) /\ AbsentOrPositive(data.quotePriceToBook)
     /\ AbsentOrPositive(data.priceToSales) /\ AbsentOrPositive(data.returnOnEquity))
    => InUnit(result[1].valComp)

\* C2: for every price series, fundamentals and recommendation list, the growth,
\* momentum, sentiment and risk sub-scores each lie in [0,1]
C2_SubScoresInUnit ==
    result # <<>> =>
        /\ InUnit(result[1].growthComp)
        /\ InUnit(result[1].momentumComp)
        /\ InUnit(result[1].sentimentComp)
        /\ InUnit(result[1].riskComp)

\* a rating from computed indicators, growth figures beyond the normalisation
\* ranges aside, with momentum and risk strictly inside (0,1)
C2_Witness ==
    /\ result # <<>>
    /\ Len(data.historical) > 30
    /\ data.targetMeanPrice # NULL
    /\ result[1].momentumComp[1] > 0
    /\ result[1].momentumComp[1] < result[1].momentumComp[2]
    /\ result[1].riskComp[1] > 0
    /\ result[1].riskComp[1] < result[1].riskComp[2]

\* the response holds the history of MaxHistory closes, all equal to 100
FlatHistory == data.historical = Flat(MaxHistory, 100)

\* C4 as stated: the RSI of MaxHistory closes all equal to 100 is 50
C4_FlatRSIIs50 == (result # <<>> /\ FlatHistory) => result[1].rsi = <<50, 1>>

\* C4, amended: the RSI of MaxHistory closes all equal to 100 is 100 (no losses)
C4_FlatRSIIs100 == (result # <<>> /\ FlatHistory) => result[1].rsi = <<100, 1>>

\* the rating of the flat history has been computed
C4_Witness == result # <<>> /\ FlatHistory /\ result[1].rsi[1] = 100

\* C10: on MaxHistory closes all equal to 100 the MACD histogram is 0, the Bollinger
\* bands collapse to upper = middle = lower = 100, and the max drawdown is 0
C10_FlatIndicators ==
    (result # <<>> /\ FlatHistory) =>
        /\ result[1].macd.histogram = <<0, 1>>
        /\ result[1].bollingerBands.upper = <<100, 1>>
        /\ result[1].bollingerBands.middle = <<100, 1>>
        /\ result[1].bollingerBands.lower = <<100, 1>>
        /\ result[1].maxDrawdown = <<0, 1>>

\* the Bollinger bands of the flat history have been computed
C10_Witness ==
    /\ result # <<>>
    /\ FlatHistory
    /\ result[1].bollingerBands.middle[1] = 100
    /\ result[1].macd.macd = <<0, 1>>

\* the response has no fundamentals, no recommendations and no closes
NothingKnown ==
    /\ data.statTrailingPE = NULL /\ data.quoteTrailingPE = NULL
    /\ data.statForwardPE = NULL /\ data.sdForwardPE = NULL
    /\ data.statPriceToBook = NULL /\ data.quotePriceToBook = NULL
    /\ data.priceToSales = NULL
    /\ data.statBeta = NULL /\ data.sdBeta = NULL
    /\ data.returnOnEquity = NULL /\ data.debtToEquity = NULL /\ data.freeCashflow = NULL
    /\ data.earningsGrowth = NULL /\ data.revenueGrowth = NULL
    /\ data.targetMeanPrice = NULL
    /\ data.trend = <<>>
    /\ data.historical = <<>>

\* C6 as stated: with nothing known, all five sub-scores are 0.5
C6_AllNeutral ==
    (result # <<>> /\ NothingKnown) =>
        /\ result[1].valComp = <<1, 2>>
        /\ result[1].growthComp = <<1, 2>>
        /\ result[1].momentumComp = <<1, 2>>
        /\ result[1].sentimentComp = <<1, 2>>
        /\ result[1].riskComp = <<1, 2>>

\* C6, amended: with nothing known, the valuation, growth and sentiment sub-scores
\* are 0.5, the momentum sub-score is 1553/4620 (about 0.336) and the risk sub-score
\* is 0.245
C6_NothingKnownScores ==
    (result # <<>> /\ NothingKnown) =>
        /\ result[1].valComp = <<1, 2>>
        /\ result[1].growthComp = <<1, 2>>
        /\ result[1].sentimentComp = <<1, 2>>
        /\ result[1].momentumComp = <<1553, 4620>>
        /\ result[1].riskComp = <<49, 200>>

\* a rating has been computed from a response with nothing known but a price
C6_Witness ==
    /\ result # <<>>
    /\ NothingKnown
    /\ data.regularMarketPrice # NULL
    /\ result[1].recommendationsCount = 0

\* x is a number other than 0 (a 0 counts as missing in handleSearch)
Known(x) == x # NULL /\ x[1] # 0

-----------------------------------------------------------------------------
(* C11: gating of the indicator block *)

ZeroMACD == [macd |-> Zero, signal |-> Zero, histogram |-> Zero]

ZeroBands == [upper |-> Zero, middle |-> Zero, lower |-> Zero]

\* the closes handleSearch keeps of the response in data
ClosesOfData == FilterCloses(data.historical)

\* C11: when the response holds fewer than 30 closes, the rating reports the
\* neutral defaults: RSI 50, the MACD triple and the Bollinger triple all zero,
\* the moving averages unset, and neither a 12-month return nor a MACD nor a
\* Sharpe ratio among the explanations
C11_ShortSeriesDefaults ==
    (result # <<>> /\ Len(ClosesOfData) < 30) =>
        /\ result[1].rsi = Num(50)
        /\ result[1].macd = ZeroMACD
        /\ result[1].bollingerBands = ZeroBands
        /\ result[1].ma50 = NULL
        /\ result[1].ma200 = NULL
        /\ \A i \in 1..Len(result[1].explanation) :
               result[1].explanation[i] \notin {"12M Return", "MACD", "Sharpe"}

\* a rating of 29 closes that move: calculateRSI, calculateMACD and
\* calculateBollingerBands would all compute on them
C11_Witness ==
    /\ result # <<>>
    /\ data.historical = History(29, 1, 2, 2)
    /\ calculateRSI(ClosesOfData) # Num(50)
    /\ calculateMACD(ClosesOfData) # ZeroMACD
    /\ calculateBollingerBands(ClosesOfData) # ZeroBands

-----------------------------------------------------------------------------
(* calculateMACD on its own: histories around its threshold of 26 points *)

MaxMACDLen == 28

MACDPrices == {1, 2, 3}

\* histories of up to MaxMACDLen closes, flat but for their last two closes
MACDSeries ==
    {History(n, a, b, c) : n \in 0..MaxMACDLen, a \in MACDPrices, b \in MACDPrices,
                           c \in MACDPrices}

InitMACD ==
    /\ data = NoData
    /\ result = <<>>
    /\ error = "null"
    /\ input \in {[fn |-> "pending", prices |-> h] : h \in MACDSeries}
    /\ ret = <<>>
    /\ InitService

CallMACD ==
    /\ input.fn = "pending"
    /\ input' = [input EXCEPT !.fn = "calculateMACD"]
    /\ ret' = <<calculateMACD(input.prices)>>
    /\ UNCHANGED <<data, result, error>>
    /\ UNCHANGED backend

NextMACD == CallMACD

SpecMACD == InitMACD /\ [][NextMACD]_vars

\* C12: calculateMACD of fewer than 26 prices is the triple (0, 0, 0)
C12_ShortMACDIsZero ==
    (input.fn = "calculateMACD" /\ Len(input.prices) < 26) => ret[1] = ZeroMACD

\* calculateMACD has returned for 25 prices that end in a rise
C12_Witness ==
    /\ input.fn = "calculateMACD"
    /\ input.prices = History(25, 1, 1, 2)
    /\ ret = <<ZeroMACD>>

-----------------------------------------------------------------------------
(* riskLabel on its own: the scores k / LabelDen of [0,1] *)

LabelDen == 100

Scores == {Rat(k, LabelDen) : k \in 0..LabelDen}

InitRiskLabel ==
    /\ data = NoData
    /\ result = <<>>
    /\ error = "null"
    /\ input \in {[fn |-> "pending", score |-> s] : s \in Scores}
    /\ ret = <<>>
    /\ InitService

CallRiskLabel ==
    /\ input.fn = "pending"
    /\ input' = [input EXCEPT !.fn = "riskLabel"]
    /\ ret' = <<riskLabel(input.score)>>
    /\ UNCHANGED <<data, result, error>>
    /\ UNCHANGED backend

NextRiskLabel == CallRiskLabel

SpecRiskLabel == InitRiskLabel /\ [][NextRiskLabel]_vars

\* the label of the score n / d, d > 0, by the thresholds 0.85, 0.70, 0.50, 0.30
LabelOf(n, d) ==
    CASE 100 * n >= 85 * d -> "High Risk-High Reward"
      [] 100 * n >= 70 * d /\ 100 * n < 85 * d -> "Moderate"
      [] 100 * n >= 50 * d /\ 100 * n < 70 * d -> "Balanced"
      [] 100 * n >= 30 * d /\ 100 * n < 50 * d -> "Cautious"
      [] 100 * n < 30 * d -> "High Risk"

\* C13: the risk label of a score in [0,1] is the one label of the band the
\* score lies in: >= 0.85, [0.70, 0.85), [0.50, 0.70), [0.30, 0.50), < 0.30
C13_RiskLabelByScore ==
    input.fn = "riskLabel" =>
        /\ ret[1] = LabelOf(input.score[1], input.score[2])
        /\ Cardinality({l \in {"High Risk-High Reward", "Moderate", "Balanced",
                               "Cautious", "High Risk"} : l = ret[1]}) = 1

\* riskLabel has labelled a score that sits on a threshold
C13_Witness ==
    /\ input.fn = "riskLabel"
    /\ input.score = Rat(70, 100)
    /\ ret = <<"Moderate">>

-----------------------------------------------------------------------------
(* normalize on its own: two arguments x and y over one range, normalized   *)
(* and then normalized again over the same range                            *)

NormDen == 2

\* the arguments k / NormDen of [-1, 2]
NormArgs == {Rat(k, NormDen) : k \in (-NormDen)..(2 * NormDen)}

NormLimits == {Num(-1), Zero, Half, One, Num(2)}

InitNormalize ==
    /\ data = NoData
    /\ result = <<>>
    /\ error = "null"
    /\ input \in {[fn |-> "normalize", x |-> x, y |-> y, min |-> lo, max |-> hi] :
                      x \in NormArgs, y \in NormArgs, lo \in NormLimits, hi \in NormLimits}
    /\ ret = <<>>
    /\ InitService

\* normalize(x, min, max) and normalize(y, min, max)
CallNormalize ==
    /\ input.fn = "normalize"
    /\ ret = <<>>
    /\ ret' = <<[x |-> normalize(input.x, input.min, input.max),
                 y |-> normalize(input.y, input.min, input.max)]>>
    /\ UNCHANGED <<data, result, error, input>>
    /\ UNCHANGED backend

\* normalize applied to the values it returned, with the same min and max
CallNormalizeAgain ==
    /\ input.fn = "normalize"
    /\ Len(ret) = 1
    /\ ret' = Append(ret, [x |-> normalize(ret[1].x, input.min, input.max),
                           y |-> normalize(ret[1].y, input.min, input.max)])
    /\ UNCHANGED <<data, result, error, input>>
    /\ UNCHANGED backend

NextNormalize == CallNormalize \/ CallNormalizeAgain

SpecNormalize == InitNormalize /\ [][NextNormalize]_vars

\* v is (x - min) / (max - min) clamped to [0,1], for min < max
ClampedRatio(v, x, min, max) ==
    IF RLe(x, min) THEN v = Zero
    ELSE IF RGe(x, max) THEN v = One
    ELSE RMul(v, RSub(max, min)) = RSub(x, min)

\* C14: for min < max, normalize(x, min, max) is (x - min) / (max - min) clamped
\* to [0,1] and does not decrease when x grows; for min = max it is 0.5
C14_NormalizeClampsAndGrows ==
    (input.fn = "normalize" /\ Len(ret) >= 1) =>
        /\ RLt(input.min, input.max) =>
               /\ ClampedRatio(ret[1].x, input.x, input.min, input.max)
               /\ ClampedRatio(ret[1].y, input.y, input.min, input.max)
               /\ RLe(input.x, input.y) => RLe(ret[1].x, ret[1].y)
        /\ input.min = input.max => (ret[1].x = Half /\ ret[1].y = Half)

\* normalize has returned values strictly inside (0,1) for x < y, min < max
C14_Witness ==
    /\ input.fn = "normalize"
    /\ Len(ret) >= 1
    /\ input.min = Num(-1) /\ input.max = Num(2)
    /\ input.x = Zero /\ input.y = Half
    /\ ret[1] = [x |-> Rat(1, 3), y |-> Half]

\* C15 as stated: for every x, min and max, normalize applied to
\* normalize(x, min, max) with the same min and max returns that same value
C15_NormalizeIdempotent ==
    (input.fn = "normalize" /\ Len(ret) = 2) => ret[2] = ret[1]

\* C15: on the unit range (min = 0, max = 1) and on a degenerate range
\* (min = max), normalize applied to normalize(x, min, max) with the same min
\* and max returns that same value
C15_NormalizeIdempotentOnUnitRange ==
    (/\ input.fn = "normalize"
     /\ Len(ret) = 2
     /\ \/ (input.min = Zero /\ input.max = One)
        \/ input.min = input.max) => ret[2] = ret[1]

\* normalize has been applied twice over the unit range to arguments inside
\* and outside it
C15_Witness ==
    /\ input.fn = "normalize"
    /\ Len(ret) = 2
    /\ input.min = Zero /\ input.max = One
    /\ input.x = Half /\ input.y = Num(2)
    /\ ret[2] = [x |-> Half, y |-> One]

-----------------------------------------------------------------------------
(* C16: a field present with the value 0 *)

\* C16: earnings growth, revenue growth and debt-to-equity of the response are
\* scored as they are given, 0 included, and only an absent one takes the
\* neutral default: the growth score and the confidence are those of the
\* response's own earnings and revenue growth, and on an empty history the
\* risk score is that of the response's own debt-to-equity
C16_ZeroIsKnown ==
    result # <<>> =>
        /\ result[1].growthComp =
               growthComp(data.earningsGrowth, data.revenueGrowth,
                          Or(data.freeCashflow, NULL), Or(data.returnOnEquity, NULL))
        /\ result[1].confidence =
               confidence(Len(ClosesOfData), Len(data.trend), result[1].pe, result[1].pb,
                          data.earningsGrowth, result[1].targetMeanPrice)
        /\ Len(ClosesOfData) = 0 =>
               result[1].riskComp =
                   riskComp(DefaultIndicators, result[1].beta, data.debtToEquity)

\* the freshness test of getCachedData with "<=" for "<"
FreshInclusive(cached, now) == now - cached.timestamp <= cacheTimeout

\* "Date.now() - cached.timestamp < this.cacheTimeout"
Fresh(cached, now) == now - cached.timestamp < cacheTimeout

\* this.cache.get(key), as the set of the entries of the key (one at most)
CacheGet(cache, key) == {c \in cache : c.key = key}

\* this.cache.set(key, { data, timestamp })
CacheSet(cache, key, d, now) ==
    {c \in cache : c.key # key} \cup {[key |-> key, data |-> d, timestamp |-> now]}

\* this.stats.cacheHits++
CacheHit(svc) == [svc EXCEPT !.stats.cacheHits = @ + 1]

\* this.stats.cacheMisses++
CacheMiss(svc) == [svc EXCEPT !.stats.cacheMisses = @ + 1]

\* cleanupCache at the time now: entries older than five timeouts are deleted
cleanupCache(cache, now) == {c \in cache : ~(now - c.timestamp > cacheTimeout * 5)}

-----------------------------------------------------------------------------
(* MarketService.checkRateLimit: callers that call it as time passes.       *)
(* trace is the sequence of the times at which a call of it has returned.   *)

\* the clock advances by half a window at a time, MaxTicks times at most
TickMs == RateWindow \div 2

MaxTicks == 3

\* the number of calls of checkRateLimit that are made
MaxCalls == 32

\* "if (now > this.rateLimit.resetTime) { requests = 0; resetTime = now + 60000 }"
WindowAt(rl, now) ==
    IF now > rl.resetTime THEN [requests |-> 0, resetTime |-> now + RateWindow] ELSE rl

InitRateLimit ==
    /\ data = NoData
    /\ result = <<>>
    /\ error = "null"
    /\ input = NoCall
    /\ ret = <<>>
    /\ InitService

\* checkRateLimit up to its await, or to its end when the limit is not reached:
\* at the limit the caller sleeps for resetTime - now
checkRateLimit ==
    /\ BagCardinality(calls) + Len(trace) < MaxCalls
    /\ LET rl == WindowAt(service.rateLimit, clock)
       IN IF rl.requests >= maxRequests
          THEN /\ service' = [service EXCEPT !.rateLimit = rl]
               /\ calls' = calls (+) SetToBag({[op |-> "checkRateLimit",
                                                wake |-> clock + (rl.resetTime - clock)]})
               /\ trace' = trace
          ELSE /\ service' = [service EXCEPT !.rateLimit =
                                  [rl EXCEPT !.requests = rl.requests + 1]]
               /\ calls' = calls
               /\ trace' = Append(trace, clock)
    /\ UNCHANGED <<clock, page>>

\* checkRateLimit from its await on: the timer of a sleeping caller has fired,
\* "requests = 0; resetTime = Date.now() + 60000; requests++"
checkRateLimitWakes ==
    /\ \E c \in BagToSet(calls) :
           /\ c.op = "checkRateLimit"
           /\ clock >= c.wake
           /\ calls' = calls (-) SetToBag({c})
    /\ service' = [service EXCEPT !.rateLimit =
                       [requests |-> 0 + 1, resetTime |-> clock + RateWindow]]
    /\ trace' = Append(trace, clock)
    /\ UNCHANGED <<clock, page>>

\* time passes
Tick ==
    /\ clock < MaxTicks * TickMs
    /\ clock' = clock + TickMs
    /\ UNCHANGED <<service, calls, trace, page>>

NextRateLimit == checkRateLimit \/ checkRateLimitWakes \/ Tick

SpecRateLimit == InitRateLimit /\ [][NextRateLimit]_vars

\* C17: no more than 30 calls of checkRateLimit return within any 60 seconds:
\* from the return of any call on, fewer than 60 s later, 30 returns at most
C17_AtMost30PerMinute ==
    \A i \in 1..Len(trace) :
        Cardinality({j \in i..Len(trace) : trace[j] < trace[i] + 60000}) <= 30

-----------------------------------------------------------------------------
(* MarketService.getCachedData: callers that ask for a key as time passes.  *)
(* trace holds what the last step of a call has done.                       *)

CacheKeys == {"quote_AAPL", "quote_TCS"}

\* the number of fetches in flight at a time
MaxFetches == 2

CacheMaxSize == 100

\* the number of calls of getCachedData in a run
MaxLookups == 4

\* the calls of getCachedData the service has counted, hits and misses
Lookups(svc) == svc.stats.cacheHits + svc.stats.cacheMisses

\* the number of calls in flight that fetch the key
InFlight(bag, key) ==
    BagCardinality([c \in {x \in BagToSet(bag) : x.key = key} |-> CopiesIn(c, bag)])

InitCache ==
    /\ data = NoData
    /\ result = <<>>
    /\ error = "null"
    /\ input = NoCall
    /\ ret = <<>>
    /\ InitService

\* getCachedData sharing the fetch of a key that is already being fetched
getCachedDataSingleFlight ==
    /\ Lookups(service) < MaxLookups
    /\ \E key \in CacheKeys :
           LET cached == CacheGet(service.cache, key)
           IN IF cached # {} /\ \A c \in cached : Fresh(c, clock)
              THEN /\ service' = CacheHit(service)
                   /\ trace' = <<[ev |-> "hit", key |-> key, at |-> clock,
                                  entry |-> cached]>>
                   /\ calls' = calls
              ELSE /\ BagCardinality(calls) < MaxFetches
                   /\ service' = CacheMiss(service)
                   /\ trace' = <<[ev |-> "fetch", key |-> key, at |-> clock,
                                  entry |-> cached]>>
                   /\ calls' = IF InFlight(calls, key) > 0 THEN calls
                               ELSE calls (+) SetToBag({[op |-> "getCachedData",
                                                         key |-> key, fetched |-> clock]})
    /\ UNCHANGED <<clock, page>>

\* getCachedData from its await on, fetchFunction having thrown, with the
\* failure cached as the entry of the key
getCachedDataThrowsCaching ==
    /\ \E c \in BagToSet(calls) :
           /\ c.op = "getCachedData"
           /\ calls' = calls (-) SetToBag({c})
           /\ service' = [service EXCEPT !.cache = CacheSet(@, c.key, -1, clock)]
           /\ trace' = <<[ev |-> "thrown", key |-> c.key, at |-> clock, entry |-> {}]>>
    /\ UNCHANGED <<clock, page>>

\* getCachedData up to its await, or to its return on a cache hit; the data a
\* fetch will return is named by the time the fetch starts
getCachedData ==
    /\ Lookups(service) < MaxLookups
    /\ \E key \in CacheKeys :
           LET cached == CacheGet(service.cache, key)
           IN IF cached # {} /\ \A c \in cached : Fresh(c, clock)
              THEN /\ service' = CacheHit(service)
                   /\ trace' = <<[ev |-> "hit", key |-> key, at |-> clock,
                                  entry |-> cached]>>
                   /\ calls' = calls
              ELSE /\ BagCardinality(calls) < MaxFetches
                   /\ service' = CacheMiss(service)
                   /\ trace' = <<[ev |-> "fetch", key |-> key, at |-> clock,
                                  entry |-> cached]>>
                   /\ calls' = calls (+) SetToBag({[op |-> "getCachedData", key |-> key,
                                                    fetched |-> clock]})
    /\ UNCHANGED <<clock, page>>

\* getCachedData from its await on, fetchFunction having resolved: the entry
\* is set with the time it is now, and the cache is cleaned up when it holds
\* more than 100 entries
getCachedDataStores ==
    /\ \E c \in BagToSet(calls) :
           /\ c.op = "getCachedData"
           /\ calls' = calls (-) SetToBag({c})
           /\ LET set == CacheSet(service.cache, c.key, c.fetched, clock)
              IN service' = [service EXCEPT !.cache =
                                 IF Cardinality(set) > CacheMaxSize
                                 THEN cleanupCache(set, clock) ELSE set]
           /\ trace' = <<[ev |-> "stored", key |-> c.key, at |-> clock, entry |-> {}]>>
    /\ UNCHANGED <<clock, page>>

\* getCachedData from its await on, fetchFunction having thrown: nothing is set
getCachedDataThrows ==
    /\ \E c \in BagToSet(calls) :
           /\ c.op = "getCachedData"
           /\ calls' = calls (-) SetToBag({c})
           /\ trace' = <<[ev |-> "thrown", key |-> c.key, at |-> clock, entry |-> {}]>>
    /\ UNCHANGED <<service, clock, page>>

\* clearCache, which the server calls on POST /api/cache/clear and on shutdown
clearCache ==
    /\ service.cache # {}
    /\ service' = [service EXCEPT !.cache = {}]
    /\ trace' = <<[ev |-> "cleared", key |-> "", at |-> clock, entry |-> {}]>>
    /\ UNCHANGED <<clock, calls, page>>

NextCache ==
    getCachedData \/ getCachedDataStores \/ getCachedDataThrows \/ clearCache \/ Tick

SpecCache == InitCache /\ [][NextCache]_vars

\* an entry of key is in the cache and was stored less than 60 s before now
StoredWithinMinute(cache, key, now) ==
    \E c \in cache : c.key = key /\ now - c.timestamp < 60000

\* C18: a call of getCachedData serves its key from the cache, starting no
\* fetch, exactly when the cache holds an entry of the key stored less than
\* 60 s ago, and otherwise starts a fetch; a fetch that resolves leaves its
\* result in the cache with the time it is then
C18_CacheServesFreshOnly ==
    [][/\ (trace' # trace /\ trace'[1].ev \in {"hit", "fetch"}) =>
              /\ trace'[1].ev = "hit" <=>
                     StoredWithinMinute(service.cache, trace'[1].key, clock)
              /\ trace'[1].ev = "hit" => calls' = calls
              /\ trace'[1].ev = "fetch" => BagCardinality(calls') = BagCardinality(calls) + 1
       /\ (trace' # trace /\ trace'[1].ev = "stored") =>
              \E c \in service'.cache : c.key = trace'[1].key /\ c.timestamp = clock
      ]_vars

\* a key has been served from the cache 30 s after it was stored, while the
\* entry of the other key is 60 s old or more
C18_Witness ==
    /\ trace # <<>>
    /\ trace[1].ev = "hit"
    /\ \E c \in trace[1].entry : clock - c.timestamp = 30000
    /\ \E c \in service.cache : c.key # trace[1].key /\ clock - c.timestamp >= 60000

-----------------------------------------------------------------------------
(* Server: calculateConfidenceBreakdown (server.js) and calculateDataQuality *)
(* (part_002)                                                               *)

\* (rec.strongBuy || 0) + (rec.buy || 0) + (rec.hold || 0) + (rec.sell || 0)
\* + (rec.strongSell || 0), on analystRecommendations[0] || {}
analyticsCount(recs) ==
    IF Len(recs) = 0 THEN 0
    ELSE recs[1].strongBuy + recs[1].buy + recs[1].hold + recs[1].sell + recs[1].strongSell

\* (rec.strongBuy || 0) * 2 + (rec.buy || 0)
buyCount(recs) == IF Len(recs) = 0 THEN 0 ELSE recs[1].strongBuy * 2 + recs[1].buy

dataDepth(historicalDataPoints) ==
    IF historicalDataPoints >= 1260 THEN 15
    ELSE IF historicalDataPoints >= 504 THEN 12
    ELSE IF historicalDataPoints >= 252 THEN 10
    ELSE IF historicalDataPoints >= 100 THEN 5
    ELSE IF historicalDataPoints >= 50 THEN 2
    ELSE 0

\* buyRatio > 0.60, with buyRatio = buyCount / (totalRating * 2)
consensusScore(recs) ==
    LET count == analyticsCount(recs)
        base == IF count >= 10 THEN 15
                ELSE IF count >= 5 THEN 10
                ELSE IF count >= 3 THEN 7
                ELSE IF count >= 1 THEN 3
                ELSE 0
    IN IF count > 0 /\ RGt(Rat(buyCount(recs), count * 2), Rat(60, 100))
       THEN (IF base + 3 < 15 THEN base + 3 ELSE 15)
       ELSE base

technicalScore == 25

\* the keys of fundamentals whose value is neither null nor undefined
fundamentalsCount(fundamentals) == Len(SelectSeq(fundamentals, LAMBDA v : v # NULL))

fundamentalScore(fundamentals) ==
    LET count == fundamentalsCount(fundamentals)
    IN IF count >= 30 THEN 24
       ELSE IF count >= 20 THEN 20
       ELSE IF count >= 15 THEN 16
       ELSE IF count >= 10 THEN 12
       ELSE IF count >= 5 THEN 8
       ELSE IF count > 0 THEN 3
       ELSE 0

predictionScore(recs, priceTargets, currentPrice) ==
    LET count == analyticsCount(recs)
        primary ==
            IF Truthy(priceTargets.targetMeanPrice) /\ RGt(currentPrice, Zero)
            THEN LET targetDiff == RAbs(RDiv(RSub(priceTargets.targetMeanPrice,
                                                  currentPrice), currentPrice))
                 IN IF RGt(targetDiff, Zero) /\ RLt(targetDiff, One) THEN 10 ELSE 0
            ELSE 0
        secondary ==
            IF count >= 5
            THEN LET ratio == Rat(buyCount(recs), count * 2)
                 IN IF RGt(ratio, Rat(65, 100)) \/ RLt(ratio, Rat(35, 100)) THEN 8 ELSE 0
            ELSE 0
        analysts == priceTargets.numberOfAnalysts
        tertiary ==
            IF analysts # 0 /\ analysts > 0
            THEN IF analysts >= 30 THEN 10
                 ELSE IF analysts >= 20 THEN 8
                 ELSE IF analysts >= 10 THEN 6
                 ELSE IF analysts >= 5 THEN 4
                 ELSE 1
            ELSE 0
    IN primary + secondary + tertiary

\* totalConfidence without the cap, "Math.max(50, sum)"
totalConfidenceUncapped(sum) == IF sum > 50 THEN sum ELSE 50

\* Math.min(95, Math.max(50, sum))
totalConfidence(sum) ==
    LET floored == IF sum > 50 THEN sum ELSE 50
    IN IF floored < 95 THEN floored ELSE 95

calculateConfidenceBreakdown(d) ==
    [dataDepth |-> dataDepth(d.historicalDataPoints),
     consensusScore |-> consensusScore(d.analystRecommendations),
     technicalScore |-> technicalScore,
     fundamentalScore |-> fundamentalScore(d.fundamentals),
     predictionScore |->
         predictionScore(d.analystRecommendations, d.priceTargets, d.currentPrice),
     totalConfidence |->
         totalConfidence(dataDepth(d.historicalDataPoints)
                         + consensusScore(d.analystRecommendations)
                         + technicalScore
                         + fundamentalScore(d.fundamentals)
                         + predictionScore(d.analystRecommendations, d.priceTargets,
                                           d.currentPrice)),
     analyticsCount |-> analyticsCount(d.analystRecommendations),
     fundamentalsCount |-> fundamentalsCount(d.fundamentals)]

calculateDataQuality(d) ==
    LET total ==
            50
            + (IF d.historicalDataPoints >= 1000 THEN 15
               ELSE IF d.historicalDataPoints >= 500 THEN 10
               ELSE IF d.historicalDataPoints >= 100 THEN 5 ELSE 0)
            + (IF d.numberOfAnalysts >= 10 THEN 15
               ELSE IF d.numberOfAnalysts >= 5 THEN 10
               ELSE IF d.numberOfAnalysts >= 1 THEN 5 ELSE 0)
            + (IF d.fundamentalsCount >= 15 THEN 20
               ELSE IF d.fundamentalsCount >= 10 THEN 15
               ELSE IF d.fundamentalsCount >= 5 THEN 10 ELSE 0)
    IN IF total < 95 THEN total ELSE 95

\* n fundamentals with a value, and one that is null
Fundamentals(n) == [i \in 1..(n + 1) |-> IF i <= n THEN One ELSE NULL]

BreakdownInputs ==
    {[historicalDataPoints |-> h, analystRecommendations |-> recs,
      fundamentals |-> Fundamentals(n),
      priceTargets |-> [targetMeanPrice |-> t, numberOfAnalysts |-> a],
      currentPrice |-> p] :
        h \in {0, 49, 50, 100, 252, 504, 1260},
        recs \in {<<>>, <<Period(0, 0, 0, 0, 0)>>, <<Period(1, 0, 0, 0, 0)>>,
                  <<Period(0, 0, 3, 0, 0)>>, <<Period(3, 2, 0, 0, 0)>>,
                  <<Period(0, 1, 2, 2, 0)>>, <<Period(6, 4, 0, 0, 0)>>,
                  <<Period(0, 0, 12, 0, 0), Period(9, 9, 0, 0, 0)>>},
        n \in {0, 1, 5, 10, 15, 20, 30},
        t \in {NULL, Num(100), Num(150), Num(250)},
        a \in {0, 1, 5, 10, 20, 30},
        p \in {Zero, Num(100)}}

QualityInputs ==
    {[historicalDataPoints |-> h, numberOfAnalysts |-> a, fundamentalsCount |-> n] :
        h \in {0, 99, 100, 500, 1000},
        a \in {0, 1, 5, 10},
        n \in {0, 4, 5, 10, 15}}

InitConfidence ==
    /\ data = NoData
    /\ result = <<>>
    /\ error = "null"
    /\ input \in {[fn |-> "pending", of |-> "calculateConfidenceBreakdown", d |-> d] :
                      d \in BreakdownInputs}
                 \cup {[fn |-> "pending", of |-> "calculateDataQuality", d |-> d] :
                          d \in QualityInputs}
    /\ ret = <<>>
    /\ InitService

CallConfidenceBreakdown ==
    /\ input.fn = "pending"
    /\ input.of = "calculateConfidenceBreakdown"
    /\ input' = [input EXCEPT !.fn = "calculateConfidenceBreakdown"]
    /\ ret' = <<calculateConfidenceBreakdown(input.d)>>
    /\ UNCHANGED <<data, result, error>>
    /\ UNCHANGED backend

CallDataQuality ==
    /\ input.fn = "pending"
    /\ input.of = "calculateDataQuality"
    /\ input' = [input EXCEPT !.fn = "calculateDataQuality"]
    /\ ret' = <<calculateDataQuality(input.d)>>
    /\ UNCHANGED <<data, result, error>>
    /\ UNCHANGED backend

NextConfidence == CallConfidenceBreakdown \/ CallDataQuality

SpecConfidence == InitConfidence /\ [][NextConfidence]_vars

\* C19: the totalConfidence of calculateConfidenceBreakdown and the score of
\* calculateDataQuality are integers from 50 to 95
C19_ConfidenceIn50To95 ==
    /\ input.fn = "calculateConfidenceBreakdown" => ret[1].totalConfidence \in 50..95
    /\ input.fn = "calculateDataQuality" => ret[1] \in 50..95

\* a breakdown whose five scores add up to more than 95
C19_Witness ==
    /\ input.fn = "calculateConfidenceBreakdown"
    /\ ret[1].dataDepth + ret[1].consensusScore + ret[1].technicalScore
           + ret[1].fundamentalScore + ret[1].predictionScore > 95
    /\ ret[1].totalConfidence = 95

-----------------------------------------------------------------------------
(* Server: GET /api/trending and GET /api/quotes over                       *)
(* MarketService.getMultipleQuotes.  A symbol is the sequence of its        *)
(* characters; a value that is undefined in JavaScript is Undefined.        *)

Undefined == "undefined"

\* const TRENDING_STOCKS
TRENDING_STOCKS ==
    <<<<"R", "E", "L", "I", "A", "N", "C", "E", ".", "N", "S">>,
      <<"T", "C", "S", ".", "N", "S">>,
      <<"H", "D", "F", "C", "B", "A", "N", "K", ".", "N", "S">>,
      <<"I", "N", "F", "Y", ".", "N", "S">>,
      <<"I", "C", "I", "C", "I", "B", "A", "N", "K", ".", "N", "S">>,
      <<"H", "I", "N", "D", "U", "N", "I", "L", "V", "R", ".", "N", "S">>,
      <<"B", "H", "A", "R", "T", "I", "A", "R", "T", "L", ".", "N", "S">>,
      <<"I", "T", "C", ".", "N", "S">>,
      <<"S", "B", "I", "N", ".", "N", "S">>,
      <<"L", "T", ".", "N", "S">>>>

LowerCase ==
    <<"a", "b", "c", "d", "e", "f", "g", "h", "i", "j", "k", "l", "m",
      "n", "o", "p", "q", "r", "s", "t", "u", "v", "w", "x", "y", "z">>

UpperCase ==
    <<"A", "B", "C", "D", "E", "F", "G", "H", "I", "J", "K", "L", "M",
      "N", "O", "P", "Q", "R", "S", "T", "U", "V", "W", "X", "Y", "Z">>

\* s.toUpperCase()
toUpperCase(s) ==
    [i \in 1..Len(s) |->
        IF \E k \in 1..Len(LowerCase) : LowerCase[k] = s[i]
        THEN UpperCase[CHOOSE k \in 1..Len(LowerCase) : LowerCase[k] = s[i]]
        ELSE s[i]]

\* symbols.filter(s => s && typeof s === 'string' && s.length > 0 && s.length <= 5)
validSymbols(symbols) == SelectSeq(symbols, LAMBDA s : Len(s) > 0 /\ Len(s) <= 5)

\* a quote as yahooFinance.quote returns it: no name and no price field
YahooQuote(s) ==
    [symbol |-> s, shortName |-> s, regularMarketPrice |-> "live",
     name |-> Undefined, price |-> Undefined]

\* the object getStockData builds from a quote
StockData(s) ==
    [symbol |-> toUpperCase(s), shortName |-> Undefined, regularMarketPrice |-> Undefined,
     name |-> toUpperCase(s), price |-> "live"]

\* checkRateLimit below the limit: the window is reset if it is over, and the
\* request is counted
Counted(svc, now) ==
    LET rl == WindowAt(svc.rateLimit, now)
    IN [svc EXCEPT !.rateLimit = [rl EXCEPT !.requests = rl.requests + 1]]

RECURSIVE StockDataLoop(_, _, _, _, _)
\* "for (const symbol of symbols)" of the catch block of getMultipleQuotes, from
\* the i-th symbol on: getStockData counts a request, then returns the fresh
\* cache entry of the symbol, or fetches and caches its quote, or throws (the
\* symbols of failing) and is skipped; acc = [service, quotes]
StockDataLoop(symbols, i, failing, now, acc) ==
    IF i > Len(symbols) THEN acc
    ELSE LET svc == Counted(acc.service, now)
             key == <<"quote_", symbols[i]>>
             cached == CacheGet(svc.cache, key)
             next ==
                 IF cached # {} /\ \A c \in cached : Fresh(c, now)
                 THEN [service |-> CacheHit(svc),
                       quotes |-> Append(acc.quotes, (CHOOSE c \in cached : TRUE).data)]
                 ELSE IF symbols[i] \in failing
                 THEN [service |-> CacheMiss(svc), quotes |-> acc.quotes]
                 ELSE [service |-> [CacheMiss(svc) EXCEPT !.cache =
                                       CacheSet(svc.cache, key, StockData(symbols[i]), now)],
                       quotes |-> Append(acc.quotes, StockData(symbols[i]))]
         IN StockDataLoop(symbols, i + 1, failing, now, next)

\* getMultipleQuotes(symbols) on the service svc at the time now, yf.quote
\* answering (upstream = "ok") or throwing: [service, quotes]
getMultipleQuotes(svc, symbols, upstream, failing, now) ==
    LET valid == validSymbols(symbols)
    IN IF Len(valid) = 0 THEN [service |-> svc, quotes |-> <<>>]
       ELSE IF upstream = "ok"
       THEN [service |-> Counted(svc, now),
             quotes |-> [i \in 1..Len(valid) |-> YahooQuote(toUpperCase(valid[i]))]]
       ELSE StockDataLoop(symbols, 1, failing, now,
                          [service |-> Counted(svc, now), quotes |-> <<>>])

\* quotes.map(q => ({ symbol: q.symbol || q.name, shortName: q.name,
\*                   regularMarketPrice: q.price, ... }))
formattedQuotes(quotes) ==
    [i \in 1..Len(quotes) |->
        [symbol |-> quotes[i].symbol, shortName |-> quotes[i].name,
         regularMarketPrice |-> quotes[i].price]]

\* the symbols a client may ask GET /api/quotes for
QuerySymbols ==
    {<<"L", "T", ".", "N", "S">>, <<"T", "C", "S", ".", "N", "S">>,
     <<"a", "a", "p", "l">>, <<"M", "S", "F", "T">>}

Queries ==
    {<<s>> : s \in QuerySymbols} \cup {<<s, t>> : s \in QuerySymbols, t \in QuerySymbols}

\* the symbols whose getStockData throws
Failures == {{}, {TRENDING_STOCKS[1], <<"a", "a", "p", "l">>}, QuerySymbols,
             {TRENDING_STOCKS[i] : i \in 1..Len(TRENDING_STOCKS)}}

Requests ==
    {[fn |-> "pending", route |-> "/api/trending", symbols |-> <<>>,
      upstream |-> u, failing |-> f] : u \in {"ok", "throws"}, f \in Failures}
    \cup {[fn |-> "pending", route |-> "/api/quotes", symbols |-> q,
           upstream |-> u, failing |-> f] :
             q \in Queries \cup {<<>>}, u \in {"ok", "throws"}, f \in Failures}

InitTrending ==
    /\ data = NoData
    /\ result = <<>>
    /\ error = "null"
    /\ input \in Requests
    /\ ret = <<>>
    /\ InitService

\* app.get('/api/trending')
GetTrending ==
    /\ input.fn = "pending"
    /\ input.route = "/api/trending"
    /\ LET got == getMultipleQuotes(service, TRENDING_STOCKS, input.upstream,
                                    input.failing, clock)
       IN /\ service' = got.service
          /\ ret' = <<[quotes |-> formattedQuotes(got.quotes)]>>
    /\ input' = [input EXCEPT !.fn = "responded"]
    /\ UNCHANGED <<data, result, error, clock, calls, trace>>

\* app.get('/api/quotes'): req.query.symbols split at the commas, or TRENDING_STOCKS
GetQuotes ==
    /\ input.fn = "pending"
    /\ input.route = "/api/quotes"
    /\ LET symbols == IF input.symbols # <<>> THEN input.symbols ELSE TRENDING_STOCKS
           got == getMultipleQuotes(service, symbols, input.upstream, input.failing, clock)
       IN /\ service' = got.service
          /\ ret' = <<[quotes |-> got.quotes]>>
    /\ input' = [input EXCEPT !.fn = "responded"]
    /\ UNCHANGED <<data, result, error, clock, calls, trace>>

NextTrending == GetTrending \/ GetQuotes

SpecTrending == InitTrending /\ [][NextTrending]_vars

\* C20: when the upstream quote call succeeds, GET /api/trending answers with
\* ten entries, the i-th the live quote of the i-th trending symbol
C20_TrendingHasTenLiveQuotes ==
    (input.fn = "responded" /\ input.route = "/api/trending" /\ input.upstream = "ok") =>
        /\ Len(ret[1].quotes) = 10
        /\ \A i \in 1..Len(ret[1].quotes) :
               /\ ret[1].quotes[i].symbol = TRENDING_STOCKS[i]
               /\ ret[1].quotes[i].regularMarketPrice # Undefined

-----------------------------------------------------------------------------
(* C21: the factors of calculateConfidenceBreakdown *)

\* C21: every factor of the breakdown stays within the maximum it is reported
\* against: dataDepth 0..15, consensusScore 0..15, technicalScore 0..25,
\* fundamentalScore 0..24, predictionScore 0..21
C21_FactorsWithinMaxima ==
    input.fn = "calculateConfidenceBreakdown" =>
        /\ ret[1].dataDepth \in 0..15
        /\ ret[1].consensusScore \in 0..15
        /\ ret[1].technicalScore \in 0..25
        /\ ret[1].fundamentalScore \in 0..24
        /\ ret[1].predictionScore \in 0..21

-----------------------------------------------------------------------------
(* C22: the threshold of the indicator block *)

\* the indicators of the rating are the ones computed from the closes
ReportsComputed(closes) ==
    /\ result[1].rsi = calculateRSI(closes)
    /\ result[1].macd = calculateMACD(closes)
    /\ result[1].bollingerBands = calculateBollingerBands(closes)
    /\ result[1].maxDrawdown = calculateMaxDrawdown(closes)
    /\ result[1].ma50 = (IF Len(closes) >= 50 THEN RDiv(Sum(Last(closes, 50)), Num(50))
                         ELSE NULL)
    /\ result[1].ma200 = (IF Len(closes) >= 200
                          THEN RDiv(Sum(Last(closes, 200)), Num(200)) ELSE NULL)

\* the indicators of the rating are the defaults
ReportsDefaults ==
    /\ result[1].rsi = Num(50)
    /\ result[1].macd = ZeroMACD
    /\ result[1].bollingerBands = ZeroBands
    /\ result[1].maxDrawdown = Zero
    /\ result[1].sharpeRatio = Zero
    /\ result[1].ma50 = NULL
    /\ result[1].ma200 = NULL

\* C22: the rating reports the indicators computed from the closes exactly
\* when there are more than 30 closes; with 30 closes or fewer it reports the
\* defaults throughout
C22_ComputedAbove30Only ==
    result # <<>> =>
        IF Len(ClosesOfData) > 30 THEN ReportsComputed(ClosesOfData) ELSE ReportsDefaults

\* a rating of exactly 30 closes that move: it is at the defaults, which are
\* not what calculateRSI and calculateBollingerBands compute on these closes
C22_Witness ==
    /\ result # <<>>
    /\ data.historical = History(30, 1, 2, 2)
    /\ ReportsDefaults
    /\ ~ReportsComputed(ClosesOfData)

-----------------------------------------------------------------------------
(* C23: overlapping calls of getCachedData for one key *)

\* C23 as stated: of every key at most one fetch is in flight at a time
C23_OneFetchPerKey ==
    \A key \in CacheKeys : InFlight(calls, key) <= 1

\* C23: every call of getCachedData that finds no fresh entry of its key
\* (the call that counts a cache miss) invokes fetchFunction itself, whether
\* or not a fetch of the key is in flight already, so that of one key as many
\* fetches are in flight as there are overlapping calls that missed
C23_EveryMissFetches ==
    [][service'.stats.cacheMisses = service.stats.cacheMisses + 1 =>
           \E key \in CacheKeys :
               /\ InFlight(calls', key) = InFlight(calls, key) + 1
               /\ \A other \in CacheKeys \ {key} :
                      InFlight(calls', other) = InFlight(calls, other)
      ]_vars

\* two calls for one key have missed and both their fetches are in flight
C23_Witness ==
    /\ service.stats.cacheMisses = 2
    /\ \E key \in CacheKeys : InFlight(calls, key) = 2

-----------------------------------------------------------------------------
(* C24: getCachedData when fetchFunction rejects *)

\* C24: a call of getCachedData whose fetchFunction rejects ends with the
\* rejection and leaves the service as it is, no entry stored or overwritten
\* and no counter changed, so that a key without a fresh entry is still
\* without one and the next call for it fetches again; before the fetch the
\* call has changed nothing but the cacheMisses counter, increased by one
C24_RejectionLeavesCacheUnchanged ==
    [][/\ (trace' # <<>> /\ trace'[1].ev = "thrown" /\ calls' # calls) =>
              /\ service'.cache = service.cache
              /\ service'.stats = service.stats
              /\ service'.rateLimit = service.rateLimit
              /\ BagCardinality(calls') = BagCardinality(calls) - 1
              /\ ~StoredWithinMinute(service.cache, trace'[1].key, clock) =>
                     ~StoredWithinMinute(service'.cache, trace'[1].key, clock')
       /\ (trace' # <<>> /\ trace'[1].ev = "fetch" /\ calls' # calls) =>
              service' = [service EXCEPT !.stats.cacheMisses = @ + 1]
      ]_vars

\* the fetch of a key whose entry is a minute old has been rejected, and the
\* old entry is still the entry of the key
C24_Witness ==
    /\ trace # <<>>
    /\ trace[1].ev = "thrown"
    /\ service.stats.cacheMisses = 2
    /\ \E c \in service.cache :
           c.key = trace[1].key /\ clock - c.timestamp >= cacheTimeout

-----------------------------------------------------------------------------
(* MarketService.getCachedData: callers that ask for one new key after      *)
(* another, every fetch resolving.  The n-th key asked for is named n.      *)

\* the number of distinct keys asked for in a run
MaxKeys == 101

InitCacheFill ==
    /\ data = NoData
    /\ result = <<>>
    /\ error = "null"
    /\ input = NoCall
    /\ ret = <<>>
    /\ InitService

\* getCachedData, up to its await or to its return on a hit, for a key that
\* no call has asked for before
getCachedDataOfNewKey ==
    /\ Lookups(service) < MaxKeys
    /\ LET key == Lookups(service) + 1
           cached == CacheGet(service.cache, key)
       IN IF cached # {} /\ \A c \in cached : Fresh(c, clock)
          THEN /\ service' = CacheHit(service)
               /\ trace' = <<[ev |-> "hit", key |-> key, at |-> clock, entry |-> cached]>>
               /\ calls' = calls
          ELSE /\ BagCardinality(calls) < MaxFetches
               /\ service' = CacheMiss(service)
               /\ trace' = <<[ev |-> "fetch", key |-> key, at |-> clock, entry |-> cached]>>
               /\ calls' = calls (+) SetToBag({[op |-> "getCachedData", key |-> key,
                                                fetched |-> clock]})
    /\ UNCHANGED <<clock, page>>

NextCacheFill == getCachedDataOfNewKey \/ getCachedDataStores

SpecCacheFill == InitCacheFill /\ [][NextCacheFill]_vars

\* C25: when no call of getCachedData is in flight, the calls having asked
\* for distinct keys, the cache holds at most 100 entries
C25_AtMost100Entries ==
    calls = EmptyBag => Cardinality(service.cache) <= 100

====
